---- MODULE Spec2Model ----
(***************************************************************************)
(* Model of the music translation orchestrator: the Flask gateway          *)
(* (musictranslator/main.py), the RQ worker (worker.py) running            *)
(* background_translation_task, the service clients and wrappers, and the  *)
(* transcript mapper (musicprocessing/transcribe.py).                      *)
(*                                                                         *)
(* Strings of the program (file names, lyric lines, words) are sequences   *)
(* of one-character tokens; a job id (a uuid) is one alphanumeric token.   *)
(* A Python value is a record tagged with its type in the field py.        *)
(***************************************************************************)
EXTENDS Integers, Sequences, FiniteSets, TLC

(* ------------------------------ bounds --------------------------------- *)

\* number of job ids uuid4 hands out before the model stops accepting
MaxJobs == 1
\* number of worker processes running worker.py
NumWorkers == 1
\* longest lyrics file, in lines, and longest alignment, in entries, the
\* mapper is run on
MaxLines == 2
MaxEntries == 3

(* --------------------------- Python values ----------------------------- *)

PyNone == [py |-> "None"]
PyStr(s) == [py |-> "str", val |-> s]
PyDict(d) == [py |-> "dict", val |-> d]
PyList(l) == [py |-> "list", val |-> l]

\* a str holding a path of the shared volume (never empty)
PyPath(p) == [py |-> "path", val |-> p]

IsDict(v) == v.py = "dict"
IsStr(v) == v.py \in {"str", "path"}

\* Python truthiness of None, str, dict and list values
Truthy(v) ==
  CASE v.py = "None" -> FALSE
    [] v.py = "str" -> v.val # <<>>
    [] v.py = "dict" -> DOMAIN v.val # {}
    [] v.py = "list" -> v.val # <<>>
    [] OTHER -> TRUE

\* key in d, for a dict value
HasKey(v, k) == IsDict(v) /\ k \in DOMAIN v.val

(* ------------------------------ strings -------------------------------- *)

RECURSIVE FilterSeq(_, _, _)
\* the elements s[i] with i in keep, in order, starting at index i
FilterSeq(s, keep, i) ==
  IF i > Len(s) THEN <<>>
  ELSE (IF i \in keep THEN <<s[i]>> ELSE <<>>) \o FilterSeq(s, keep, i + 1)

RECURSIVE StripChars(_, _)
\* str.strip(chars): drop the leading and trailing characters in chars
StripChars(s, chars) ==
  IF s = <<>> THEN s
  ELSE IF s[1] \in chars THEN StripChars(Tail(s), chars)
  ELSE IF s[Len(s)] \in chars THEN StripChars(SubSeq(s, 1, Len(s) - 1), chars)
  ELSE s

\* the characters of the model's alphabet outside [A-Za-z0-9_.-]
IllegalChars == {"*", "/", " "}

\* "_".join(s.split()): blanks at the ends go, an inner run of blanks
\* becomes one underscore
JoinSplit(s) ==
  LET keep == {i \in 1..Len(s) :
                 \/ s[i] # " "
                 \/ /\ i > 1
                    /\ s[i - 1] # " "
                    /\ \E k \in (i + 1)..Len(s) : s[k] # " "}
      t == [i \in 1..Len(s) |-> IF s[i] = " " THEN "_" ELSE s[i]]
  IN FilterSeq(t, keep, 1)

\* werkzeug.utils.secure_filename on a POSIX host: separators become blanks,
\* blanks join with "_", other characters outside [A-Za-z0-9_.-] are removed,
\* then dots and underscores are stripped from both ends
secure_filename(filename) ==
  LET noSep == [i \in 1..Len(filename) |-> IF filename[i] = "/" THEN " " ELSE filename[i]]
      joined == JoinSplit(noSep)
      ascii == FilterSeq(joined, {i \in 1..Len(joined) : joined[i] \notin IllegalChars}, 1)
  IN StripChars(ascii, {".", "_"})

(* ------------------------------- paths --------------------------------- *)

AUDIO_DIR == <<"shared-data", "audio">>
LYRICS_DIR == <<"shared-data", "lyrics">>
SERVE_AUDIO_DIR == AUDIO_DIR

\* os.path.join(directory, name)
PathJoin(d, n) == [dir |-> d, name |-> n]
\* os.path.dirname / os.path.basename
DirName(p) == p.dir
BaseName(p) == p.name

\* os.path.splitext(name)[0]: cut the last dot-suffix unless the dot leads
SplitExtRoot(n) ==
  LET dots == {i \in 2..Len(n) : n[i] = "." /\ \E k \in 1..(i - 1) : n[k] # "."}
  IN IF dots = {} THEN n
     ELSE SubSeq(n, 1, (CHOOSE i \in dots : \A k \in dots : k <= i) - 1)

(* ------------------------------ state ---------------------------------- *)

VARIABLES
  validCodes,   \* main.VALID_ACCESS_CODES as loaded at startup
  fs,           \* the shared volume: path -> content of every existing file
  jobs,         \* the broker's job store: job id -> status, meta, result, exc_info, args
  queues,       \* the broker's queues: name -> sequence of enqueued calls
  issued,       \* number of job ids uuid4 has produced
  worker,       \* per worker process: position in the task and its locals
  last          \* the HTTP exchange answered by the latest step, if it was one

vars == <<validCodes, fs, jobs, queues, issued, worker, last>>

Workers == 1..NumWorkers

\* the ids uuid.uuid4() returns, in the order it returns them
JobIdPool == <<"j1", "j2", "j3", "j4">>
JobIds == {JobIdPool[i] : i \in 1..Len(JobIdPool)}

NoExchange == [op |-> "none"]

\* os.path.exists for a file and for a directory
Exists(p) == p \in DOMAIN fs
DirExists(d) == \E p \in DOMAIN fs : p.dir = d

\* the volume after os.remove(p) / shutil.rmtree(d) / writing content c at p
Removed(f, p) == [q \in (DOMAIN f) \ {p} |-> f[q]]
RemovedTree(f, d) == [q \in {x \in DOMAIN f : x.dir # d} |-> f[q]]
Written(f, p, c) == [q \in (DOMAIN f) \cup {p} |-> IF q = p THEN c ELSE f[q]]

(* ------------------------- gateway: Submit ----------------------------- *)

EmptyDict == [k \in {} |-> PyNone]
Put(d, k, v) == [x \in (DOMAIN d) \cup {k} |-> IF x = k THEN v ELSE d[x]]

\* an absent query parameter, header or multipart part
Absent == [py |-> "None"]
\* an uploaded multipart part
FilePart(filename, content) == [py |-> "file", filename |-> filename, content |-> content]

\* get_redis_connection: redis.Redis(...) opens no socket and the attribute
\* g.redis_conn.ping is referenced, never called, so the broker is not
\* contacted; None only when the constructor raises ConnectionError
get_redis_connection(env) ==
  IF env.ctorRaises THEN PyNone ELSE PyStr(<<"conn">>)

\* get_translation_queue: the queue object, or None without a connection
get_translation_queue(env) ==
  IF Truthy(get_redis_connection(env)) THEN PyStr(<<"translations">>) ELSE PyNone

\* access_code = request.args.get('access_code') or request.headers.get('X-Access-Code')
EffectiveCode(query, header) == IF Truthy(query) THEN query ELSE header

\* a test of membership alone: the empty code of the allow-list is accepted
AccessGrantedByMembership(code, valid) == code.py = "str" /\ code.val \in valid

\* the test of main.py:384 negated: access is granted
AccessGranted(code, valid) == Truthy(code) /\ code.val \in valid

\* a stored name that leaves the job id out
UniqueNameNoId(job_id, original) == original

\* f"{job_id}_{original}"
UniqueName(job_id, original) == <<job_id, "_">> \o original

\* validate_audio / validate_text: libmagic and ffmpeg on the stored file
validate_audio(f, p) == p \in DOMAIN f /\ f[p].kind = "audio"
validate_text(f, p) == p \in DOMAIN f /\ f[p].kind = "text"

\* the except-clause of translate: remove whichever of the two files exists
RemoveBoth(f, a, l) ==
  LET f1 == IF a \in DOMAIN f THEN Removed(f, a) ELSE f
  IN IF l \in DOMAIN f1 THEN Removed(f1, l) ELSE f1

\* main.py:411-451: save, validate, enqueue. Gives the reply, the volume
\* afterwards, whether a job was enqueued and the validators called.
SaveValidateEnqueue(req, f, job_id, aname, lname) ==
  LET apath == PathJoin(AUDIO_DIR, UniqueName(job_id, aname))
      lpath == PathJoin(LYRICS_DIR, UniqueName(job_id, lname))
      f1 == Written(f, apath, req.audio.content)
      f2 == Written(f1, lpath, req.lyrics.content)
  IN IF req.saveFails = "audio"
       THEN [status |-> 500, fs |-> RemoveBoth(f, apath, lpath), enq |-> FALSE, calls |-> <<>>]
     ELSE IF req.saveFails = "lyrics"
       THEN [status |-> 500, fs |-> RemoveBoth(f1, apath, lpath), enq |-> FALSE, calls |-> <<>>]
     ELSE IF ~validate_audio(f2, apath)
       THEN [status |-> 400, fs |-> Removed(Removed(f2, apath), lpath), enq |-> FALSE,
             calls |-> <<"validate_audio">>]
     ELSE IF ~validate_text(f2, lpath)
       THEN [status |-> 400, fs |-> Removed(Removed(f2, apath), lpath), enq |-> FALSE,
             calls |-> <<"validate_audio", "validate_text">>]
     ELSE IF ~req.env.enqueueOk
       THEN [status |-> 503, fs |-> f2, enq |-> FALSE,
             calls |-> <<"validate_audio", "validate_text">>]
     ELSE [status |-> 202, fs |-> f2, enq |-> TRUE,
           calls |-> <<"validate_audio", "validate_text">>]

\* the job record rq creates on enqueue
NewJob(args) ==
  [status |-> "queued", meta |-> EmptyDict, result |-> PyNone, exc_info |-> <<>>,
   args |-> args]

TranslationCall(job_id) == [func |-> "background_translation_task", id |-> job_id]

\* POST /api/translate
translate(req) ==
  LET reject(code) ==
        /\ last' = [op |-> "submit", req |-> req, status |-> code, job_id |-> "", calls |-> <<>>]
        /\ UNCHANGED <<validCodes, fs, jobs, queues, issued, worker>>
  IN
  IF ~Truthy(get_translation_queue(req.env)) THEN reject(503)
  ELSE IF ~AccessGranted(EffectiveCode(req.query, req.header), validCodes) THEN reject(401)
  ELSE IF req.audio.py = "None" \/ req.lyrics.py = "None" THEN reject(400)
  ELSE
    LET aname == secure_filename(req.audio.filename)
        lname == secure_filename(req.lyrics.filename)
    IN IF aname = <<>> \/ lname = <<>> THEN reject(400)
       ELSE
         /\ issued < MaxJobs
         /\ LET job_id == JobIdPool[issued + 1]
                out == SaveValidateEnqueue(req, fs, job_id, aname, lname)
                args == <<PathJoin(AUDIO_DIR, UniqueName(job_id, aname)),
                          PathJoin(LYRICS_DIR, UniqueName(job_id, lname)),
                          UniqueName(job_id, aname), aname>>
            IN /\ issued' = issued + 1
               /\ fs' = out.fs
               /\ jobs' = IF out.enq THEN Put(jobs, job_id, NewJob(args)) ELSE jobs
               /\ queues' = IF out.enq
                              THEN [queues EXCEPT !["translations"] = Append(@, TranslationCall(job_id))]
                              ELSE queues
               /\ last' = [op |-> "submit", req |-> req, status |-> out.status,
                           job_id |-> IF out.enq THEN job_id ELSE "", calls |-> out.calls]
               /\ UNCHANGED <<validCodes, worker>>

(* ------------------------- transcript mapper --------------------------- *)

\* a JSON null start or end time
NoTime == -1

Whitespace == {" "}
Punctuation == {".", ",", "!", "?", ";", ":"}

\* str.lower on a character
LowerChar(c) == CASE c = "A" -> "a" [] c = "B" -> "b" [] c = "C" -> "c" [] OTHER -> c
Lower(w) == [i \in 1..Len(w) |-> LowerChar(w[i])]

RECURSIVE SplitWords(_, _)
\* str.split(): the maximal runs of non-blank characters; cur is the run so far
SplitWords(s, cur) ==
  IF s = <<>> THEN (IF cur = <<>> THEN <<>> ELSE <<cur>>)
  ELSE IF s[1] \in Whitespace
         THEN (IF cur = <<>> THEN <<>> ELSE <<cur>>) \o SplitWords(Tail(s), <<>>)
         ELSE SplitWords(Tail(s), Append(cur, s[1]))

\* word.lower().strip(".,!?;:")
Normalize(w) == StripChars(Lower(w), Punctuation)

RECURSIVE process_lines(_)
\* the loop of process_transcript over the raw lines
process_lines(raw_lines) ==
  IF raw_lines = <<>> THEN <<>>
  ELSE
    LET original_text == StripChars(raw_lines[1], Whitespace)
        split == SplitWords(original_text, <<>>)
        normal == [i \in 1..Len(split) |-> Normalize(split[i])]
        words == FilterSeq(normal, {i \in 1..Len(normal) : normal[i] # <<>>}, 1)
    IN (IF original_text # <<>> /\ words # <<>>
          THEN <<[original_text |-> original_text, word_list |-> words]>>
          ELSE <<>>)
       \o process_lines(Tail(raw_lines))

\* a reader that keeps the lower-cased line as its text
process_transcript_lowered(f, lyrics_path) ==
  IF lyrics_path \notin DOMAIN f THEN <<>>
  ELSE LET r == process_lines(f[lyrics_path].lines)
       IN [i \in 1..Len(r) |-> [r[i] EXCEPT !.original_text = Lower(@)]]

\* process_transcript: [] when the file does not exist
process_transcript(f, lyrics_path) ==
  IF lyrics_path \notin DOMAIN f THEN <<>> ELSE process_lines(f[lyrics_path].lines)

\* interval[2].lower().strip(".,!?;:") if len(interval) > 2 else ''
AlignedWordText(interval) == IF Len(interval) > 2 THEN Normalize(interval[3]) ELSE <<>>

\* a search that starts over from the first interval for every word
SearchFromStart(intervals, word, idx) ==
  LET hits == {i \in 1..Len(intervals) : AlignedWordText(intervals[i]) = word}
  IN IF hits = {} THEN 0 ELSE CHOOSE i \in hits : \A j \in hits : i <= j

\* a search that looks at the next interval only
SearchNextOnly(intervals, word, idx) ==
  IF idx > Len(intervals) THEN 0
  ELSE IF AlignedWordText(intervals[idx]) = word THEN idx
  ELSE 0

RECURSIVE SearchFrom(_, _, _)
\* the while loop of map_transcript: the first index at or after idx whose
\* normalized word equals word, or 0 when the scan reaches the end
SearchFrom(intervals, word, idx) ==
  IF idx > Len(intervals) THEN 0
  ELSE IF AlignedWordText(intervals[idx]) = word THEN idx
  ELSE SearchFrom(intervals, word, idx + 1)

RECURSIVE MapWordsSkipping(_, _, _)
\* a word loop that leaves out the words it finds no interval for
MapWordsSkipping(words, intervals, st) ==
  IF words = <<>> THEN st
  ELSE
    LET word == words[1]
        hit == SearchFrom(intervals, word, st.idx)
    IN IF hit = 0
         THEN MapWordsSkipping(Tail(words), intervals, st)
         ELSE
           LET interval == intervals[hit]
               ws == interval[1]
               we == interval[2]
           IN MapWordsSkipping(Tail(words), intervals,
                [data |-> Append(st.data, [word |-> interval[3], start |-> ws, end |-> we]),
                 start |-> IF ws # NoTime /\ (st.start = NoTime \/ ws < st.start)
                             THEN ws ELSE st.start,
                 end |-> IF we # NoTime /\ (st.end = NoTime \/ we > st.end)
                           THEN we ELSE st.end,
                 idx |-> hit + 1])

RECURSIVE MapWordsFirstEnd(_, _, _)
\* a word loop that keeps the end of the first timed word as the line's end
MapWordsFirstEnd(words, intervals, st) ==
  IF words = <<>> THEN st
  ELSE
    LET word == words[1]
        hit == SearchFrom(intervals, word, st.idx)
    IN IF hit = 0
         THEN MapWordsFirstEnd(Tail(words), intervals,
                [st EXCEPT !.data = Append(@, [word |-> word, start |-> NoTime, end |-> NoTime])])
         ELSE
           LET interval == intervals[hit]
               ws == interval[1]
               we == interval[2]
           IN MapWordsFirstEnd(Tail(words), intervals,
                [data |-> Append(st.data, [word |-> interval[3], start |-> ws, end |-> we]),
                 start |-> IF ws # NoTime /\ (st.start = NoTime \/ ws < st.start)
                             THEN ws ELSE st.start,
                 end |-> IF we # NoTime /\ st.end = NoTime THEN we ELSE st.end,
                 idx |-> hit + 1])

RECURSIVE MapWordsConsuming(_, _, _)
\* a word loop in which a word without an interval moves the search index on
MapWordsConsuming(words, intervals, st) ==
  IF words = <<>> THEN st
  ELSE
    LET word == words[1]
        hit == SearchFrom(intervals, word, st.idx)
    IN IF hit = 0
         THEN MapWordsConsuming(Tail(words), intervals,
                [st EXCEPT !.data = Append(@, [word |-> word, start |-> NoTime, end |-> NoTime]),
                           !.idx = @ + 1])
         ELSE
           LET interval == intervals[hit]
               ws == interval[1]
               we == interval[2]
           IN MapWordsConsuming(Tail(words), intervals,
                [data |-> Append(st.data, [word |-> interval[3], start |-> ws, end |-> we]),
                 start |-> IF ws # NoTime /\ (st.start = NoTime \/ ws < st.start)
                             THEN ws ELSE st.start,
                 end |-> IF we # NoTime /\ (st.end = NoTime \/ we > st.end)
                           THEN we ELSE st.end,
                 idx |-> hit + 1])

RECURSIVE MapWordsRebinding(_, _, _)
\* a word loop that leaves the search index on the interval it has bound
MapWordsRebinding(words, intervals, st) ==
  IF words = <<>> THEN st
  ELSE
    LET word == words[1]
        hit == SearchFrom(intervals, word, st.idx)
    IN IF hit = 0
         THEN MapWordsRebinding(Tail(words), intervals,
                [st EXCEPT !.data = Append(@, [word |-> word, start |-> NoTime, end |-> NoTime])])
         ELSE
           LET interval == intervals[hit]
               ws == interval[1]
               we == interval[2]
           IN MapWordsRebinding(Tail(words), intervals,
                [data |-> Append(st.data, [word |-> interval[3], start |-> ws, end |-> we]),
                 start |-> IF ws # NoTime /\ (st.start = NoTime \/ ws < st.start)
                             THEN ws ELSE st.start,
                 end |-> IF we # NoTime /\ (st.end = NoTime \/ we > st.end)
                           THEN we ELSE st.end,
                 idx |-> hit])

RECURSIVE MapWords(_, _, _)
\* the for loop over the words of one line; st carries current_line_word_data,
\* line_actual_start_time, line_actual_end_time and temp_interval_search_idx
MapWords(words, intervals, st) ==
  IF words = <<>> THEN st
  ELSE
    LET word == words[1]
        hit == SearchFrom(intervals, word, st.idx)
    IN IF hit = 0
         THEN MapWords(Tail(words), intervals,
                [st EXCEPT !.data = Append(@, [word |-> word, start |-> NoTime, end |-> NoTime])])
         ELSE
           LET interval == intervals[hit]
               ws == interval[1]
               we == interval[2]
           IN MapWords(Tail(words), intervals,
                [data |-> Append(st.data, [word |-> interval[3], start |-> ws, end |-> we]),
                 start |-> IF ws # NoTime /\ (st.start = NoTime \/ ws < st.start)
                             THEN ws ELSE st.start,
                 end |-> IF we # NoTime /\ (st.end = NoTime \/ we > st.end)
                           THEN we ELSE st.end,
                 idx |-> hit + 1])

RECURSIVE MapLinesRestart(_, _, _)
\* a line loop that starts every line's search at the first interval again
MapLinesRestart(transcript_lines, intervals, interval_index) ==
  IF transcript_lines = <<>> THEN <<>>
  ELSE
    LET line_obj == transcript_lines[1]
        st == MapWords(line_obj.word_list, intervals,
                [data |-> <<>>, start |-> NoTime, end |-> NoTime, idx |-> 1])
    IN (IF st.data # <<>>
          THEN <<[line_text |-> line_obj.original_text, words |-> st.data,
                  line_start_time |-> st.start, line_end_time |-> st.end]>>
          ELSE <<>>)
       \o MapLinesRestart(Tail(transcript_lines), intervals, st.idx)

RECURSIVE MapLines(_, _, _)
\* the for loop over transcript_lines, interval_index carried across lines
MapLines(transcript_lines, intervals, interval_index) ==
  IF transcript_lines = <<>> THEN <<>>
  ELSE
    LET line_obj == transcript_lines[1]
        st == MapWords(line_obj.word_list, intervals,
                [data |-> <<>>, start |-> NoTime, end |-> NoTime, idx |-> interval_index])
    IN (IF st.data # <<>>
          THEN <<[line_text |-> line_obj.original_text, words |-> st.data,
                  line_start_time |-> st.start, line_end_time |-> st.end]>>
          ELSE <<>>)
       \o MapLines(Tail(transcript_lines), intervals, st.idx)

\* a mapper that answers None when it has no line to map
map_transcript_none_without_lines(f, alignment_json_path, lyrics_path) ==
  IF alignment_json_path \notin DOMAIN f THEN PyNone
  ELSE IF f[alignment_json_path].kind # "json" THEN PyNone
  ELSE
    LET transcript_lines == process_transcript(f, lyrics_path)
    IN IF transcript_lines = <<>> THEN PyNone
       ELSE PyList(MapLines(transcript_lines, f[alignment_json_path].entries, 1))

\* map_transcript: None without a parseable alignment file, [] without lines
map_transcript(f, alignment_json_path, lyrics_path) ==
  IF alignment_json_path \notin DOMAIN f THEN PyNone
  ELSE IF f[alignment_json_path].kind # "json" THEN PyNone
  ELSE
    LET transcript_lines == process_transcript(f, lyrics_path)
    IN IF transcript_lines = <<>> THEN PyList(<<>>)
       ELSE PyList(MapLines(transcript_lines, f[alignment_json_path].entries, 1))

(* --------------------- external services and clients ------------------- *)

SEPARATOR_OUTPUT_DIR == <<"shared-data", "separator_output">>
CORPUS_DIR == <<"shared-data", "corpus">>
ALIGNED_DIR == <<"shared-data", "aligned">>

Wav(stem) == <<stem, ".", "wav">>

\* separator_wrapper.run_demucs: output_model_dir of an audio file
OutputModelDir(audio_basename) ==
  SEPARATOR_OUTPUT_DIR \o <<"htdemucs_6s">> \o SplitExtRoot(audio_basename)

\* a separator that consumes its input: the audio file is gone afterwards
split_audio_consumes_input(f, input_file, out) ==
  LET audio_file_path == PathJoin(AUDIO_DIR, BaseName(input_file))
      dir == OutputModelDir(BaseName(input_file))
  IN IF out.kind \in {"refused", "fails"} \/ audio_file_path \notin DOMAIN f
       THEN [reply |-> PyDict([error |-> <<"Demucs Error">>]), fs |-> f]
     ELSE
       LET kept == (DOMAIN f) \ {audio_file_path}
           written == [q \in kept \cup {PathJoin(dir, Wav(st)) : st \in out.stems} |->
                         IF q \in kept THEN f[q] ELSE [kind |-> "audio"]]
       IN [reply |-> PyDict([st \in out.listed |-> PyPath(PathJoin(dir, Wav(st)))]),
           fs |-> written]

\* separator_wrapper.separate as reached through split_audio(input_file):
\* the reply and the volume afterwards. out is what demucs does:
\* "refused" (no reply), "fails", or the set of stems it writes; listed is
\* the stem mapping the service reports.
split_audio(f, input_file, out) ==
  LET audio_file_path == PathJoin(AUDIO_DIR, BaseName(input_file))
      dir == OutputModelDir(BaseName(input_file))
  IN IF out.kind = "refused"
       THEN [reply |-> PyDict([error |-> <<"Demucs Error">>]), fs |-> f]
     ELSE IF audio_file_path \notin DOMAIN f
       THEN [reply |-> PyDict([error |-> <<"Audio file not found.">>]), fs |-> f]
     ELSE IF out.kind = "fails"
       THEN [reply |-> PyDict([error |-> <<"Demucs processing erro">>]), fs |-> f]
     ELSE
       LET written == [q \in (DOMAIN f) \cup {PathJoin(dir, Wav(st)) : st \in out.stems} |->
                         IF q \in DOMAIN f THEN f[q] ELSE [kind |-> "audio"]]
       IN [reply |-> PyDict([st \in out.listed |-> PyPath(PathJoin(dir, Wav(st)))]),
           fs |-> written]

\* aligner_wrapper.align as reached through align_lyrics(vocals, lyrics):
\* out is "refused" (no reply), or what mfa does: "validate_fails",
\* "align_fails", or the document it exports (Absent: it exports nothing)
align_lyrics(f, vocals_stem_path, lyrics_path, out) ==
  LET base_name == SplitExtRoot(BaseName(vocals_stem_path))
      corpus_audio_path == PathJoin(CORPUS_DIR, base_name \o <<".", "wav">>)
      corpus_lyrics_path == PathJoin(CORPUS_DIR, base_name \o <<".", "txt">>)
      json_output_path == PathJoin(ALIGNED_DIR, base_name \o <<".", "json">>)
      clean == RemovedTree(RemovedTree(f, CORPUS_DIR), ALIGNED_DIR)
      err(m) == PyDict([error |-> <<m>>])
  IN IF out.kind = "refused"
       THEN [reply |-> err("Error communicating with MFA: {e}"), fs |-> f]
     ELSE IF vocals_stem_path \notin DOMAIN clean
       THEN [reply |-> err("Error communicating with MFA: {e}"), fs |-> clean]
     ELSE IF lyrics_path \notin DOMAIN clean
       THEN [reply |-> err("Error communicating with MFA: {e}"),
             fs |-> Written(clean, corpus_audio_path, clean[vocals_stem_path])]
     ELSE
       LET copied == Written(Written(clean, corpus_audio_path, clean[vocals_stem_path]),
                             corpus_lyrics_path, clean[lyrics_path])
       IN IF out.kind \in {"validate_fails", "align_fails"}
            THEN [reply |-> err("Error communicating with MFA: {e}"), fs |-> copied]
          ELSE [reply |-> PyPath(json_output_path),
                fs |-> IF out.doc.py = "None" THEN copied
                       ELSE Written(copied, json_output_path, out.doc.val)]

TonalStems == {"vocals", "bass", "guitar", "piano", "other"}

\* instrument.lower() on the instrument names in use
InstrumentLower(i) ==
  CASE i = "Vocals" -> "vocals" [] i = "Drums" -> "drums" [] i = "BASS" -> "bass" [] OTHER -> i

\* what the F0 service answers for a payload
F0ServiceReply(payload, out) ==
  CASE out.kind = "data" ->
         [raised |-> FALSE, reply |-> PyDict([i \in DOMAIN payload |-> <<"F0Series">>])]
    [] out.kind = "error" -> [raised |-> FALSE, reply |-> PyDict([error |-> out.error])]
    [] out.kind = "list" -> [raised |-> FALSE, reply |-> PyList(<<"F0Series">>)]
    [] OTHER -> [raised |-> TRUE, reply |-> PyStr(out.error)]

\* a client that compares the instrument names as they are written
request_f0_analysis_exact_names(stem_paths, out) ==
  IF ~IsDict(stem_paths) \/ ~Truthy(stem_paths)
    THEN [raised |-> FALSE, called |-> FALSE, payload |-> EmptyDict,
          reply |-> PyDict([error |-> <<"No stem paths provided for F0 analysis.">>])]
  ELSE
    LET payload_keys == {i \in DOMAIN stem_paths.val :
                           /\ i # "drums"
                           /\ Truthy(stem_paths.val[i]) /\ IsStr(stem_paths.val[i])
                           /\ i \in TonalStems}
        payload_stems == [i \in payload_keys |-> stem_paths.val[i]]
    IN IF payload_keys = {}
         THEN [raised |-> FALSE, called |-> FALSE, payload |-> EmptyDict,
               reply |-> PyDict([info |-> <<"No relevant stems were submitted for F0 analysis.">>])]
       ELSE [raised |-> F0ServiceReply(payload_stems, out).raised, called |-> TRUE,
             payload |-> payload_stems, reply |-> F0ServiceReply(payload_stems, out).reply]

\* request_f0_analysis(stem_paths): out is the behaviour of the F0 service
\* ("data", "error", "list") or "raises" for an exception the client does
\* not catch; called and payload are the request it posts, if any
request_f0_analysis(stem_paths, out) ==
  IF ~IsDict(stem_paths) \/ ~Truthy(stem_paths)
    THEN [raised |-> FALSE, called |-> FALSE, payload |-> EmptyDict,
          reply |-> PyDict([error |-> <<"No stem paths provided for F0 analysis.">>])]
  ELSE
    LET payload_keys == {i \in DOMAIN stem_paths.val :
                           /\ InstrumentLower(i) # "drums"
                           /\ Truthy(stem_paths.val[i]) /\ IsStr(stem_paths.val[i])
                           /\ InstrumentLower(i) \in TonalStems}
        payload_stems == [i \in payload_keys |-> stem_paths.val[i]]
    IN IF payload_keys = {}
         THEN [raised |-> FALSE, called |-> FALSE, payload |-> EmptyDict,
               reply |-> PyDict([info |-> <<"No relevant stems were submitted for F0 analysis.">>])]
       ELSE [raised |-> F0ServiceReply(payload_stems, out).raised, called |-> TRUE,
             payload |-> payload_stems, reply |-> F0ServiceReply(payload_stems, out).reply]

(* ------------------------------ worker --------------------------------- *)

\* worker.LISTEN_QUEUES
LISTEN_QUEUES == <<"translations">>

NoSlots ==
  [alignment_json_path |-> PyNone, f0_analysis_data |-> PyNone,
   alignment_error |-> PyNone, f0_error |-> PyNone]

IdleWorker ==
  [pc |-> "idle", job |-> "", separate_result |-> PyNone, vocals_stem_path |-> PyNone,
   separate_cleanup_path |-> PyNone, thread_results_shared |-> NoSlots,
   align_thread |-> "unborn", f0_thread |-> "unborn",
   alignment_json_path |-> PyNone, f0_analysis_result |-> PyNone,
   final_job_result |-> PyNone]

\* main.cleanup_files: remove each argument that is set and exists
cleanup_files(f, lyrics_path, alignment_path, separate_path) ==
  LET f1 == IF Truthy(lyrics_path) /\ lyrics_path.val \in DOMAIN f
              THEN Removed(f, lyrics_path.val) ELSE f
      f2 == IF Truthy(alignment_path) /\ alignment_path.val \in DOMAIN f1
              THEN Removed(f1, alignment_path.val) ELSE f1
  IN IF Truthy(separate_path) /\ (\E q \in DOMAIN f2 : q.dir = separate_path.val)
       THEN RemovedTree(f2, separate_path.val) ELSE f2

\* the first queue of LISTEN_QUEUES that holds a call, or 0
FirstReady ==
  LET ready == {i \in 1..Len(LISTEN_QUEUES) : queues[LISTEN_QUEUES[i]] # <<>>}
  IN IF ready = {} THEN 0 ELSE CHOOSE i \in ready : \A k \in ready : i <= k

SetMeta(j, k, v) == [jobs EXCEPT ![j].meta = Put(@, k, v)]

\* the except clause main.py:265-273 followed by rq's failure handling:
\* failure_reason is saved, the job becomes failed with the exception text
Raise(w, msg) ==
  /\ jobs' = [jobs EXCEPT ![worker[w].job] =
                [@ EXCEPT !.status = "failed", !.exc_info = msg,
                          !.meta = Put(@, "failure_reason", <<"Task failed: ">> \o msg)]]
  /\ worker' = [worker EXCEPT ![w] = IdleWorker]

\* Worker.work: take the next call of a listened queue and start it
Fetch(w) ==
  /\ worker[w].pc = "idle"
  /\ FirstReady # 0
  /\ LET q == LISTEN_QUEUES[FirstReady]
         call == Head(queues[q])
     IN /\ queues' = [queues EXCEPT ![q] = Tail(@)]
        /\ IF call.func = "background_translation_task"
             THEN /\ jobs' = [jobs EXCEPT ![call.id].status = "started"]
                  /\ worker' = [worker EXCEPT ![w] = [IdleWorker EXCEPT !.pc = "begin", !.job = call.id]]
                  /\ fs' = fs
             ELSE /\ fs' = cleanup_files(fs, call.kwargs.lyrics_path,
                                         call.kwargs.alignment_path, call.kwargs.separate_path)
                  /\ UNCHANGED <<jobs, worker>>
  /\ last' = NoExchange
  /\ UNCHANGED <<validCodes, issued>>

\* main.py:126
StageStarting(w) ==
  /\ worker[w].pc = "begin"
  /\ jobs' = SetMeta(worker[w].job, "progress_stage", "starting")
  /\ worker' = [worker EXCEPT ![w].pc = "separate"]
  /\ last' = NoExchange
  /\ UNCHANGED <<validCodes, fs, queues, issued>>

\* main.py:130-132
StageSeparating(w) ==
  /\ worker[w].pc = "separate"
  /\ jobs' = SetMeta(worker[w].job, "progress_stage", "separating_audio")
  /\ worker' = [worker EXCEPT ![w].pc = "split"]
  /\ last' = NoExchange
  /\ UNCHANGED <<validCodes, fs, queues, issued>>

StemNames == {"vocals", "bass", "drums"}

\* what the separator may do with one request
SeparatorOutcomes ==
  {[kind |-> "refused"], [kind |-> "fails"],
   [kind |-> "stems", stems |-> StemNames, listed |-> StemNames],
   [kind |-> "stems", stems |-> StemNames \ {"vocals"}, listed |-> StemNames \ {"vocals"}],
   [kind |-> "stems", stems |-> StemNames \ {"vocals"}, listed |-> StemNames]}

\* main.py:133: the separator call returns
Separate(w) ==
  /\ worker[w].pc = "split"
  /\ \E out \in SeparatorOutcomes :
       LET res == split_audio(fs, jobs[worker[w].job].args[1], out)
       IN /\ fs' = res.fs
          /\ worker' = [worker EXCEPT ![w] =
                          [@ EXCEPT !.pc = "split_check", !.separate_result = res.reply]]
  /\ last' = NoExchange
  /\ UNCHANGED <<validCodes, jobs, queues, issued>>

\* separate_result.get('vocals')
VocalsOf(separate_result) ==
  IF HasKey(separate_result, "vocals") THEN separate_result.val.vocals ELSE PyNone

\* main.py:136-149: the checks on the separator's reply
CheckSeparation(w) ==
  /\ worker[w].pc = "split_check"
  /\ LET separate_result == worker[w].separate_result
         vocals_stem_path == VocalsOf(separate_result)
     IN IF IsDict(separate_result) /\ HasKey(separate_result, "error")
          THEN Raise(w, <<"Audio separation failed: ">> \o separate_result.val.error)
        ELSE IF ~Truthy(vocals_stem_path) \/ vocals_stem_path.val \notin DOMAIN fs
          THEN Raise(w, <<"Error during audio separation: Vocals track not found.">>)
        ELSE
          LET k == CHOOSE k \in DOMAIN separate_result.val : TRUE
              first_stem_path == separate_result.val[k]
          IN /\ worker' = [worker EXCEPT ![w] =
                             [@ EXCEPT !.pc = "stage2",
                                       !.vocals_stem_path = vocals_stem_path,
                                       !.separate_cleanup_path =
                                          PyPath(DirName(first_stem_path.val))]]
             /\ jobs' = jobs
  /\ last' = NoExchange
  /\ UNCHANGED <<validCodes, fs, queues, issued>>

\* a start of the two tasks that does not announce the stage
StartThreadsUnannounced(w) ==
  /\ worker[w].pc = "stage2"
  /\ jobs' = jobs
  /\ worker' = [worker EXCEPT ![w] =
                  [@ EXCEPT !.pc = "threads", !.thread_results_shared = NoSlots,
                            !.align_thread = "running", !.f0_thread = "running"]]
  /\ last' = NoExchange
  /\ UNCHANGED <<validCodes, fs, queues, issued>>

\* main.py:153-205: progress, the shared slots, both threads started
StartThreads(w) ==
  /\ worker[w].pc = "stage2"
  /\ jobs' = SetMeta(worker[w].job, "progress_stage", "stem_processing")
  /\ worker' = [worker EXCEPT ![w] =
                  [@ EXCEPT !.pc = "threads", !.thread_results_shared = NoSlots,
                            !.align_thread = "running", !.f0_thread = "running"]]
  /\ last' = NoExchange
  /\ UNCHANGED <<validCodes, fs, queues, issued>>

\* sample alignment documents mfa may export
SampleEntries == << <<1, 2, <<"a">>>>, <<3, 4, <<"B">>>> >>
AlignmentDocs == {[kind |-> "json", entries |-> SampleEntries], [kind |-> "notjson"]}

\* what the aligner may do with one request
AlignerOutcomes ==
  {[kind |-> "refused"], [kind |-> "align_fails"], [kind |-> "exports", doc |-> Absent]}
  \cup {[kind |-> "exports", doc |-> [py |-> "doc", val |-> d]] : d \in AlignmentDocs}

\* what the F0 service may do with one request
F0Outcomes ==
  {[kind |-> "data"], [kind |-> "error", error |-> <<"timeout">>], [kind |-> "list"],
   [kind |-> "raises", error |-> <<"boom">>]}

\* _align_lyrics_task, main.py:164-180
AlignThread(w) ==
  /\ worker[w].pc = "threads"
  /\ worker[w].align_thread = "running"
  /\ \E out \in AlignerOutcomes :
       LET unique_lyrics_path == jobs[worker[w].job].args[2]
           res == align_lyrics(fs, worker[w].vocals_stem_path.val, unique_lyrics_path, out)
           result == res.reply
           shared == worker[w].thread_results_shared
           slots ==
             IF IsDict(result) /\ HasKey(result, "error")
               THEN [shared EXCEPT !.alignment_error = PyStr(result.val.error)]
             ELSE IF ~Truthy(result) \/ (IsStr(result) /\ result.val \notin DOMAIN res.fs)
               THEN [shared EXCEPT !.alignment_error =
                       PyStr(<<"Alignment result path invalid or not found: ">>)]
             ELSE [shared EXCEPT !.alignment_json_path = result]
       IN /\ fs' = res.fs
          /\ worker' = [worker EXCEPT ![w] =
                          [@ EXCEPT !.thread_results_shared = slots, !.align_thread = "done"]]
  /\ last' = NoExchange
  /\ UNCHANGED <<validCodes, jobs, queues, issued>>

\* an F0 task that reports its failures in the alignment task's error slot
F0ThreadSharedError(w) ==
  /\ worker[w].pc = "threads"
  /\ worker[w].f0_thread = "running"
  /\ \E out \in F0Outcomes :
       LET res == request_f0_analysis(worker[w].separate_result, out)
           result == res.reply
           shared == worker[w].thread_results_shared
           slots ==
             IF res.raised THEN [shared EXCEPT !.alignment_error = result]
             ELSE IF IsDict(result) /\ HasKey(result, "error")
               THEN [shared EXCEPT !.alignment_error = PyStr(result.val.error)]
             ELSE IF ~IsDict(result)
               THEN [shared EXCEPT !.alignment_error =
                       PyStr(<<"F0 analysis returned unexpected data type: ">>)]
             ELSE [shared EXCEPT !.f0_analysis_data = result]
       IN worker' = [worker EXCEPT ![w] =
                       [@ EXCEPT !.thread_results_shared = slots, !.f0_thread = "done"]]
  /\ last' = NoExchange
  /\ UNCHANGED <<validCodes, fs, jobs, queues, issued>>

\* _f0_analysis_task, main.py:182-199
F0Thread(w) ==
  /\ worker[w].pc = "threads"
  /\ worker[w].f0_thread = "running"
  /\ \E out \in F0Outcomes :
       LET res == request_f0_analysis(worker[w].separate_result, out)
           result == res.reply
           shared == worker[w].thread_results_shared
           slots ==
             IF res.raised THEN [shared EXCEPT !.f0_error = result]
             ELSE IF IsDict(result) /\ HasKey(result, "error")
               THEN [shared EXCEPT !.f0_error = PyStr(result.val.error)]
             ELSE IF ~IsDict(result)
               THEN [shared EXCEPT !.f0_error =
                       PyStr(<<"F0 analysis returned unexpected data type: ">>)]
             ELSE [shared EXCEPT !.f0_analysis_data = result]
       IN worker' = [worker EXCEPT ![w] =
                       [@ EXCEPT !.thread_results_shared = slots, !.f0_thread = "done"]]
  /\ last' = NoExchange
  /\ UNCHANGED <<validCodes, fs, jobs, queues, issued>>

F0_INFO == <<"F0 analysis did not complete successfully.">>

\* main.py:221-229: the value of f0_analysis_result after the join. The
\* error record built at 225-228 is assigned first; line 229 then assigns
\* the data slot unconditionally.
F0AnalysisResult(shared) ==
  LET at228 == IF Truthy(shared.f0_error)
                 THEN PyDict([error |-> shared.f0_error.val, info |-> F0_INFO])
                 ELSE PyNone
      at229 == shared.f0_analysis_data
  IN at229

\* a join that treats an F0 error as fatal, like an alignment error
JoinF0Fatal(w) ==
  /\ worker[w].pc = "threads"
  /\ worker[w].align_thread = "done"
  /\ worker[w].f0_thread = "done"
  /\ LET shared == worker[w].thread_results_shared
     IN IF Truthy(shared.alignment_error)
          THEN Raise(w, <<"Lyrics alignment failed: ">> \o shared.alignment_error.val)
        ELSE IF Truthy(shared.f0_error)
          THEN Raise(w, <<"F0 analysis failed: ">> \o shared.f0_error.val)
          ELSE /\ worker' = [worker EXCEPT ![w] =
                               [@ EXCEPT !.pc = "map",
                                         !.alignment_json_path = shared.alignment_json_path,
                                         !.f0_analysis_result = F0AnalysisResult(shared)]]
               /\ jobs' = SetMeta(worker[w].job, "progress_stage", "mapping_transcript")
  /\ last' = NoExchange
  /\ UNCHANGED <<validCodes, fs, queues, issued>>

\* a join that waits for the alignment thread only
JoinAlignOnly(w) ==
  /\ worker[w].pc = "threads"
  /\ worker[w].align_thread = "done"
  /\ LET shared == worker[w].thread_results_shared
     IN IF Truthy(shared.alignment_error)
          THEN Raise(w, <<"Lyrics alignment failed: ">> \o shared.alignment_error.val)
          ELSE /\ worker' = [worker EXCEPT ![w] =
                               [@ EXCEPT !.pc = "map",
                                         !.alignment_json_path = shared.alignment_json_path,
                                         !.f0_analysis_result = F0AnalysisResult(shared)]]
               /\ jobs' = SetMeta(worker[w].job, "progress_stage", "mapping_transcript")
  /\ last' = NoExchange
  /\ UNCHANGED <<validCodes, fs, queues, issued>>

\* main.py:208-236: join both threads, judge the slots, announce mapping
Join(w) ==
  /\ worker[w].pc = "threads"
  /\ worker[w].align_thread = "done"
  /\ worker[w].f0_thread = "done"
  /\ LET shared == worker[w].thread_results_shared
     IN IF Truthy(shared.alignment_error)
          THEN Raise(w, <<"Lyrics alignment failed: ">> \o shared.alignment_error.val)
          ELSE /\ worker' = [worker EXCEPT ![w] =
                               [@ EXCEPT !.pc = "map",
                                         !.alignment_json_path = shared.alignment_json_path,
                                         !.f0_analysis_result = F0AnalysisResult(shared)]]
               /\ jobs' = SetMeta(worker[w].job, "progress_stage", "mapping_transcript")
  /\ last' = NoExchange
  /\ UNCHANGED <<validCodes, fs, queues, issued>>

\* main.py:245-250
FinalJobResult(mapped_result, f0_analysis_result, unique_audio_filename, original_audio_filename) ==
  PyDict([mapped_result |-> mapped_result,
          f0_analysis |-> IF Truthy(f0_analysis_result) THEN f0_analysis_result ELSE PyNone,
          audio_url |-> <<"api/files/">> \o unique_audio_filename,
          original_filename |-> original_audio_filename])

\* main.py:255-260
CleanupCall(lyrics_path, alignment_path, separate_path) ==
  [func |-> "cleanup_files",
   kwargs |-> [lyrics_path |-> lyrics_path, alignment_path |-> alignment_path,
               separate_path |-> separate_path]]

\* a mapper step that enqueues the cleanup whether or not it has a result
MapAlwaysCleaning(w) ==
  /\ worker[w].pc = "map"
  /\ LET args == jobs[worker[w].job].args
         mapped_result == map_transcript(fs, worker[w].alignment_json_path.val, args[2])
         cleaning == [queues EXCEPT !["cleanup_files"] =
                        Append(@, CleanupCall(PyPath(args[2]),
                                              worker[w].alignment_json_path,
                                              worker[w].separate_cleanup_path))]
     IN IF ~Truthy(mapped_result)
          THEN /\ Raise(w, <<"Failed to map alignment to transcript.">>)
               /\ queues' = cleaning
          ELSE /\ worker' = [worker EXCEPT ![w] =
                               [@ EXCEPT !.pc = "return",
                                         !.final_job_result =
                                            FinalJobResult(mapped_result,
                                              worker[w].f0_analysis_result, args[3], args[4])]]
               /\ queues' = cleaning
               /\ jobs' = jobs
  /\ last' = NoExchange
  /\ UNCHANGED <<validCodes, fs, issued>>

\* main.py:237-263: map, assemble the result, enqueue the cleanup
Map(w) ==
  /\ worker[w].pc = "map"
  /\ LET args == jobs[worker[w].job].args
         mapped_result == map_transcript(fs, worker[w].alignment_json_path.val, args[2])
     IN IF ~Truthy(mapped_result)
          THEN /\ Raise(w, <<"Failed to map alignment to transcript.">>)
               /\ queues' = queues
          ELSE /\ worker' = [worker EXCEPT ![w] =
                               [@ EXCEPT !.pc = "return",
                                         !.final_job_result =
                                            FinalJobResult(mapped_result,
                                              worker[w].f0_analysis_result, args[3], args[4])]]
               /\ queues' = [queues EXCEPT !["cleanup_files"] =
                               Append(@, CleanupCall(PyPath(args[2]),
                                                     worker[w].alignment_json_path,
                                                     worker[w].separate_cleanup_path))]
               /\ jobs' = jobs
  /\ last' = NoExchange
  /\ UNCHANGED <<validCodes, fs, issued>>

\* a return that marks the job finished and loses the returned value
ReturnStatusOnly(w) ==
  /\ worker[w].pc = "return"
  /\ jobs' = [jobs EXCEPT ![worker[w].job].status = "finished"]
  /\ worker' = [worker EXCEPT ![w] = IdleWorker]
  /\ last' = NoExchange
  /\ UNCHANGED <<validCodes, fs, queues, issued>>

\* rq stores the returned value and marks the job finished
Return(w) ==
  /\ worker[w].pc = "return"
  /\ jobs' = [jobs EXCEPT ![worker[w].job] =
                [@ EXCEPT !.status = "finished", !.result = worker[w].final_job_result]]
  /\ worker' = [worker EXCEPT ![w] = IdleWorker]
  /\ last' = NoExchange
  /\ UNCHANGED <<validCodes, fs, queues, issued>>

\* job_timeout=5000 (main.py:436): rq raises JobTimeoutException inside the
\* running task, which leaves through the except clause
TaskPcs == {"begin", "separate", "split", "split_check", "stage2", "threads", "map"}

TIMEOUT_MESSAGE == <<"Task exceeded maximum timeout value (5000 seconds)">>

\* a timeout that marks the job failed and lets the task run on
TimeoutTaskRunsOn(w) ==
  /\ worker[w].pc \in TaskPcs
  /\ jobs[worker[w].job].status = "started"
  /\ jobs' = [jobs EXCEPT ![worker[w].job] =
                [@ EXCEPT !.status = "failed", !.exc_info = TIMEOUT_MESSAGE]]
  /\ worker' = worker
  /\ last' = NoExchange
  /\ UNCHANGED <<validCodes, fs, queues, issued>>

Timeout(w) ==
  /\ worker[w].pc \in TaskPcs
  /\ Raise(w, TIMEOUT_MESSAGE)
  /\ last' = NoExchange
  /\ UNCHANGED <<validCodes, fs, queues, issued>>

(* ------------------ gateway: Poll, Serve, Delete ----------------------- *)

\* str(job.exc_info): the text itself, and "None" for a job without one
StrOf(exc_info) == IF exc_info = <<>> THEN <<"None">> ELSE exc_info

\* a reply that never reports the stage
ResultReplyNoStage(job) ==
  IF job.status = "finished"
    THEN IF IsDict(job.result)
           THEN [code |-> 200, body |-> [status |-> "finished", result |-> job.result]]
           ELSE [code |-> 500, body |-> [status |-> "failed",
                                         message |-> <<"Job finished with unexpected result type.">>]]
  ELSE IF job.status = "failed"
    THEN [code |-> 500, body |-> [status |-> "failed", message |-> StrOf(job.exc_info)]]
  ELSE [code |-> 202, body |-> [status |-> job.status]]

\* the body and code get_results builds for a fetched job (main.py:468-489)
ResultReply(job) ==
  IF job.status = "finished"
    THEN IF IsDict(job.result)
           THEN [code |-> 200, body |-> [status |-> "finished", result |-> job.result]]
           ELSE [code |-> 500, body |-> [status |-> "failed",
                                         message |-> <<"Job finished with unexpected result type.">>]]
  ELSE IF job.status = "failed"
    THEN [code |-> 500, body |-> [status |-> "failed", message |-> StrOf(job.exc_info)]]
  ELSE IF "progress_stage" \in DOMAIN job.meta
    THEN [code |-> 202, body |-> [status |-> job.status,
                                  progress_stage |-> job.meta["progress_stage"]]]
    ELSE [code |-> 202, body |-> [status |-> job.status]]

REDIS_ERROR == [status |-> "error", message |-> <<"Error communicating with Redis.">>]
NOT_FOUND == [status |-> "error", message |-> <<"Job ID not found or invalid.">>]

\* get_results as a function of the connection and the broker's job store
ResultsReply(store, job_id, env) ==
  IF ~Truthy(get_redis_connection(env)) THEN [code |-> 503, body |-> REDIS_ERROR]
  ELSE IF ~env.brokerUp THEN [code |-> 503, body |-> REDIS_ERROR]
  ELSE IF job_id \notin DOMAIN store THEN [code |-> 404, body |-> NOT_FOUND]
  ELSE ResultReply(store[job_id])

\* a poll that records itself in the job's metadata
get_results_saving_meta(job_id, env) ==
  /\ last' = [op |-> "poll", job_id |-> job_id, env |-> env,
              reply |-> ResultsReply(jobs, job_id, env)]
  /\ jobs' = IF job_id \in DOMAIN jobs /\ env.brokerUp
               THEN [jobs EXCEPT ![job_id].meta = Put(@, "polled", "yes")]
               ELSE jobs
  /\ UNCHANGED <<validCodes, fs, queues, issued, worker>>

\* GET /api/results/<job_id>
get_results(job_id, env) ==
  /\ last' = [op |-> "poll", job_id |-> job_id, env |-> env,
              reply |-> ResultsReply(jobs, job_id, env)]
  /\ UNCHANGED <<validCodes, fs, jobs, queues, issued, worker>>

\* GET /api/files/<name>: send_from_directory answers with the file, or
\* raises NotFound, which the handler's generic except turns into a 500
serve_file(unique_audio_filename) ==
  /\ LET path == PathJoin(SERVE_AUDIO_DIR, unique_audio_filename)
     IN last' = [op |-> "serve", name |-> unique_audio_filename,
                 code |-> IF "/" \notin {unique_audio_filename[i] : i \in 1..Len(unique_audio_filename)}
                             /\ path \in DOMAIN fs
                            THEN 200 ELSE 500]
  /\ UNCHANGED <<validCodes, fs, jobs, queues, issued, worker>>

\* the characters of a name
Chars(name) == {name[i] : i \in 1..Len(name)}

\* a delete that insists on the file being there
DeleteOutcomeStrict(f, filename) ==
  LET safe_filename == secure_filename(filename)
      file_path == PathJoin(AUDIO_DIR, safe_filename)
  IN IF "/" \in Chars(filename) \/ filename = <<>> THEN [code |-> 404, fs |-> f]
     ELSE IF safe_filename = <<>> \/ safe_filename # filename THEN [code |-> 400, fs |-> f]
     ELSE IF file_path \in DOMAIN f THEN [code |-> 200, fs |-> Removed(f, file_path)]
     ELSE [code |-> 404, fs |-> f]

\* the code and the volume after DELETE /api/cleanup/<filename>. The route
\* '/api/cleanup/<string:filename>' (main.py:529) matches one non-empty path
\* segment: a name with a "/" reaches no handler and Flask answers 404
DeleteOutcome(f, filename) ==
  LET safe_filename == secure_filename(filename)
      file_path == PathJoin(AUDIO_DIR, safe_filename)
  IN IF "/" \in Chars(filename) \/ filename = <<>> THEN [code |-> 404, fs |-> f]
     ELSE IF safe_filename = <<>> \/ safe_filename # filename THEN [code |-> 400, fs |-> f]
     ELSE IF file_path \in DOMAIN f THEN [code |-> 200, fs |-> Removed(f, file_path)]
     ELSE [code |-> 200, fs |-> f]

delete_audio_file(filename) ==
  /\ fs' = DeleteOutcome(fs, filename).fs
  /\ last' = [op |-> "delete", name |-> filename, code |-> DeleteOutcome(fs, filename).code]
  /\ UNCHANGED <<validCodes, jobs, queues, issued, worker>>

(* ---------------------------- environment ------------------------------ *)

EmptyCode == <<>>
GoodCode == <<"c">>
BadCode == <<"x">>

\* the broker as one request meets it
BrokerUp == [brokerUp |-> TRUE, ctorRaises |-> FALSE, enqueueOk |-> TRUE]
Envs ==
  {BrokerUp,
   [brokerUp |-> TRUE, ctorRaises |-> FALSE, enqueueOk |-> FALSE],
   [brokerUp |-> FALSE, ctorRaises |-> FALSE, enqueueOk |-> FALSE],
   [brokerUp |-> FALSE, ctorRaises |-> TRUE, enqueueOk |-> FALSE]}

SongName == <<"s", ".", "w">>
LyricsName == <<"l", ".", "t">>
TraversalName == <<".", ".", "/", "s">>

LyricsWords == [kind |-> "text", lines |-> << <<"A", ",", " ", "b">> >>]
LyricsBlank == [kind |-> "text", lines |-> << <<",">>, <<" ">> >>]
Binary == [kind |-> "binary"]
Audio == [kind |-> "audio"]

\* the submissions of the pipeline specification
PipelineRequests ==
  {[env |-> BrokerUp, query |-> PyStr(GoodCode), header |-> Absent,
    audio |-> FilePart(SongName, Audio), lyrics |-> FilePart(LyricsName, c),
    saveFails |-> "none"] : c \in {LyricsWords, LyricsBlank}}
  \cup
  {[env |-> BrokerUp, query |-> Absent, header |-> PyStr(BadCode),
    audio |-> FilePart(SongName, Audio), lyrics |-> FilePart(LyricsName, LyricsWords),
    saveFails |-> "none"]}

CodeOptions == {Absent, PyStr(EmptyCode), PyStr(GoodCode), PyStr(BadCode)}
GoodAudio == FilePart(SongName, Audio)
GoodLyrics == FilePart(LyricsName, LyricsWords)
AudioParts == {Absent, GoodAudio, FilePart(SongName, Binary), FilePart(TraversalName, Audio)}
LyricsParts == {Absent, GoodLyrics, FilePart(LyricsName, Binary), FilePart(<<"_">>, LyricsWords)}

\* the submissions of the gateway specification: every broker condition
\* against every class of access code and presence of parts; every pair of
\* query and header code; every pair of parts against every save failure
GatewayRequests ==
  [env : Envs, query : {Absent, PyStr(GoodCode), PyStr(BadCode)}, header : {Absent},
   audio : {Absent, GoodAudio}, lyrics : {Absent, GoodLyrics}, saveFails : {"none"}]
  \cup
  [env : {BrokerUp}, query : CodeOptions, header : CodeOptions,
   audio : {GoodAudio}, lyrics : {GoodLyrics}, saveFails : {"none"}]
  \cup
  [env : Envs \ {[brokerUp |-> FALSE, ctorRaises |-> TRUE, enqueueOk |-> FALSE]},
   query : {PyStr(GoodCode)}, header : {Absent},
   audio : AudioParts, lyrics : LyricsParts, saveFails : {"none", "audio", "lyrics"}]

PollIds == {JobIdPool[i] : i \in 1..MaxJobs} \cup {"deadbeef"}
PollEnvs == {e \in Envs : e.enqueueOk = e.brokerUp}

\* the names clients ask the gateway to serve or delete
ClientNames == {jobs[j].args[3] : j \in DOMAIN jobs} \cup {TraversalName}

(* --------------------------- specifications ---------------------------- *)

Init ==
  /\ validCodes \in {{EmptyCode}, {EmptyCode, GoodCode}}
  /\ fs = [p \in {} |-> Audio]
  /\ jobs = [j \in {} |-> NewJob(<<>>)]
  /\ queues = [q \in {"translations", "cleanup_files"} |-> <<>>]
  /\ issued = 0
  /\ worker = [w \in Workers |-> IdleWorker]
  /\ last = NoExchange

WorkerStep(w) ==
  \/ Fetch(w)
  \/ StageStarting(w)
  \/ StageSeparating(w)
  \/ Separate(w)
  \/ CheckSeparation(w)
  \/ StartThreads(w)
  \/ AlignThread(w)
  \/ F0Thread(w)
  \/ Join(w)
  \/ Map(w)
  \/ Return(w)
  \/ Timeout(w)

Submit == \E req \in PipelineRequests : translate(req)
Poll == \E j \in PollIds, env \in PollEnvs : get_results(j, env)
Serve == \E n \in ClientNames : serve_file(n)
Delete == \E n \in ClientNames : delete_audio_file(n)

Next ==
  \/ Submit
  \/ Poll
  \/ Serve
  \/ Delete
  \/ \E w \in Workers : WorkerStep(w)

Spec == Init /\ [][Next]_vars

GatewaySubmit == \E req \in GatewayRequests : translate(req)

NextGateway ==
  \/ GatewaySubmit
  \/ Poll
  \/ Serve
  \/ Delete

SpecGateway == Init /\ [][NextGateway]_vars

\* the jobs a poll can find in the broker: every rq status with every shape
\* of stored result, metadata and exception text
JobViews ==
  [status : {"queued", "started", "deferred", "finished", "failed"},
   meta : {EmptyDict,
           [k \in {"progress_stage"} |-> "stem_processing"],
           [k \in {"failure_reason"} |-> <<"Error during separation">>]},
   result : {PyNone, PyList(<<>>), PyStr(<<"r">>),
             PyDict([mapped_result |-> PyList(<<>>), f0_analysis |-> PyNone])},
   exc_info : {<<>>, <<"Traceback">>},
   args : {<<PathJoin(AUDIO_DIR, <<"j1", "_">> \o SongName),
             PathJoin(LYRICS_DIR, <<"j1", "_">> \o LyricsName),
             <<"j1", "_">> \o SongName, SongName>>}]

InitPoll ==
  /\ validCodes = {EmptyCode}
  /\ fs = [p \in {} |-> Audio]
  /\ jobs \in {EmptyDict} \cup {[j \in {"j1"} |-> v] : v \in JobViews}
  /\ queues = [q \in {"translations", "cleanup_files"} |-> <<>>]
  /\ issued = 0
  /\ worker = [w \in Workers |-> IdleWorker]
  /\ last = NoExchange

NextPoll == Poll

SpecPoll == InitPoll /\ [][NextPoll]_vars

\* what DELETE /api/cleanup/ can meet on the volume: stored audio, a stored
\* audio whose client name was sanitized on upload, the lyrics of the job
\* and a lyrics upload that has the name of the audio
StoredSong == <<"j1", "_">> \o SongName
StoredSanitized == <<"j1", "_", "s", "_", "w">>
DeleteFiles ==
  {PathJoin(AUDIO_DIR, StoredSong), PathJoin(AUDIO_DIR, StoredSanitized),
   PathJoin(LYRICS_DIR, <<"j1", "_">> \o LyricsName), PathJoin(LYRICS_DIR, StoredSong)}
DeleteVolumes ==
  {[p \in S |-> IF p.dir = AUDIO_DIR THEN Audio ELSE LyricsWords] : S \in SUBSET DeleteFiles}

\* the names clients send: stored names, a name never stored, the name of
\* the lyrics file, a name with a blank, one with a leading dot, a traversal
UnsanitizedName == <<"j1", "_", "s", " ", "w">>
DeleteNames ==
  {StoredSong, StoredSanitized, <<"n", ".", "w">>, <<"j1", "_">> \o LyricsName,
   UnsanitizedName, <<".", "s">>, TraversalName}

InitDelete ==
  /\ validCodes = {EmptyCode}
  /\ fs \in DeleteVolumes
  /\ jobs = EmptyDict
  /\ queues = [q \in {"translations", "cleanup_files"} |-> <<>>]
  /\ issued = 0
  /\ worker = [w \in Workers |-> IdleWorker]
  /\ last = NoExchange

NextDelete == \E n \in DeleteNames : delete_audio_file(n)

SpecDelete == InitDelete /\ [][NextDelete]_vars

\* every sequence over S of length at most n
SeqsUpTo(S, n) == UNION {[1..k -> S] : k \in 0..n}

\* the lines a lyrics file is made of: words with case and punctuation,
\* blanks at the ends, a line of punctuation only, a blank line, the same
\* word twice
MapperLines ==
  {<<"A", ",", " ", "b">>, <<" ", "b", " ">>, <<",">>, <<" ">>,
   <<"b", " ", "a">>, <<"a", " ", "a">>}

MapperLyrics ==
  {[kind |-> "text", lines |-> l] : l \in SeqsUpTo(MapperLines, MaxLines)}

\* the i-th entry of a words tier as mfa exports it: intervals follow each
\* other in time; the text may be empty (silence), upper case, absent, and
\* the times may be null
EntryKinds == {"a", "B", "silence", "untimed", "short"}
Entry(i, k) ==
  CASE k = "a" -> <<2 * i - 1, 2 * i, <<"a">>>>
    [] k = "B" -> <<2 * i - 1, 2 * i, <<"B">>>>
    [] k = "silence" -> <<2 * i - 1, 2 * i, <<>>>>
    [] k = "untimed" -> <<NoTime, NoTime, <<"a">>>>
    [] OTHER -> <<2 * i - 1, 2 * i>>

MapperAlignments ==
  {[kind |-> "json", entries |-> [i \in 1..Len(c) |-> Entry(i, c[i])]] :
     c \in SeqsUpTo(EntryKinds, MaxEntries)}
  \cup {[kind |-> "notjson"]}

MapperLyricsPath == PathJoin(LYRICS_DIR, <<"j1", "_">> \o LyricsName)
MapperAlignmentPath == PathJoin(ALIGNED_DIR, <<"vocals", ".", "json">>)

\* the volumes the mapper is called on: each of the two files is there or not
MapperVolumes ==
  {[p \in {MapperLyricsPath, MapperAlignmentPath} |->
      IF p = MapperLyricsPath THEN l ELSE a] : l \in MapperLyrics, a \in MapperAlignments}
  \cup {[p \in {MapperLyricsPath} |-> l] : l \in MapperLyrics}
  \cup {[p \in {MapperAlignmentPath} |-> a] : a \in MapperAlignments}

InitMapper ==
  /\ validCodes = {EmptyCode}
  /\ fs \in MapperVolumes
  /\ jobs = EmptyDict
  /\ queues = [q \in {"translations", "cleanup_files"} |-> <<>>]
  /\ issued = 0
  /\ worker = [w \in Workers |-> IdleWorker]
  /\ last = NoExchange

\* one call map_transcript(alignment_json_path, lyrics_path)
MapCall ==
  /\ last.op = "none"
  /\ last' = [op |-> "map",
              result |-> map_transcript(fs, MapperAlignmentPath, MapperLyricsPath)]
  /\ UNCHANGED <<validCodes, fs, jobs, queues, issued, worker>>

NextMapper == MapCall

SpecMapper == InitMapper /\ [][NextMapper]_vars

(* the four service clients, by the outcome of their requests.post *)

ClientNamesOfServices ==
  {"request_f0_analysis", "align_lyrics", "split_audio", "request_volume_analysis"}

\* the bodies the service of a client answers 200 with
Bodies200(client) ==
  CASE client = "align_lyrics" ->
         {PyDict([alignment_file_path |-> <<"aligned/vocals.json">>]),
          PyDict([alignment_file_path |-> <<"aligned/song.json">>])}
    [] client = "split_audio" ->
         {PyDict([vocals |-> <<"vocals.wav">>, bass |-> <<"bass.wav">>]),
          PyDict([bass |-> <<"bass.wav">>])}
    [] client = "request_f0_analysis" ->
         {PyDict([vocals |-> <<"F0Series">>]), PyDict([vocals |-> <<>>, bass |-> <<"F0Series">>])}
    [] OTHER ->
         {PyDict([overall_rms |-> <<"RmsSeries">>]),
          PyDict([overall_rms |-> <<"RmsSeries">>, instruments |-> <<"RmsSeries">>])}

\* the outcomes of one HTTP call: 200 with a body of the service or one that
\* does not decode as JSON; an error status with the service's error record
\* or a body that does not decode; no connection, a timeout, another
\* requests exception, an exception of any other class
HttpOutcomes(client) ==
  LET ErrorStatuses == {400, 401, 403, 404, 415, 429, 500, 502, 503, 504}
  IN
  [kind : {"response"}, status : {200}, json : {TRUE}, body : Bodies200(client)]
  \cup [kind : {"response"}, status : {200}, json : {FALSE}, body : {PyNone}]
  \cup [kind : {"response"}, status : ErrorStatuses, json : {TRUE},
        body : {PyDict([error |-> <<"internal">>])}]
  \cup [kind : {"response"}, status : ErrorStatuses, json : {FALSE}, body : {PyNone}]
  \cup [kind : {"ConnectionError", "Timeout", "RequestException", "Exception"},
        status : {0}, json : {FALSE}, body : {PyNone}]

Is2xx(out) == out.kind = "response" /\ out.status \in 200..299

Returned(v) == [raised |-> FALSE, reply |-> v]
Raised(e) == [raised |-> TRUE, reply |-> PyStr(<<e>>)]
ErrorRecord(m) == Returned(PyDict([error |-> <<m>>]))

\* F0.py:78-107
F0Response(out) ==
  IF out.kind = "Exception" THEN Raised("Exception")
  ELSE IF out.kind = "ConnectionError" THEN ErrorRecord("Connection error calling F0 service")
  ELSE IF out.kind = "Timeout" THEN ErrorRecord("Timeout calling F0 service")
  ELSE IF out.kind = "RequestException" THEN ErrorRecord("Request exception calling F0 service")
  ELSE IF ~Is2xx(out) THEN ErrorRecord("HTTP error occurred calling F0 service")
  ELSE IF ~out.json THEN ErrorRecord("Request exception calling F0 service")
  ELSE Returned(out.body)

\* volume.py:101-127
VolumeResponse(out) ==
  IF out.kind = "Exception" THEN Raised("Exception")
  ELSE IF out.kind = "ConnectionError" THEN ErrorRecord("Connection error calling Volume service")
  ELSE IF out.kind = "Timeout" THEN ErrorRecord("Timeout calling Volume service")
  ELSE IF out.kind = "RequestException"
    THEN ErrorRecord("Request exception calling Volume service")
  ELSE IF ~Is2xx(out) THEN ErrorRecord("HTTP Error occurred while calling Volume service")
  ELSE IF ~out.json THEN ErrorRecord("Request exception calling Volume service")
  ELSE Returned(out.body)

\* separate.py:17-33: an HTTP error answers with the body of the response
\* when it decodes
SeparateResponse(out) ==
  IF out.kind # "response" THEN ErrorRecord("Demucs Error")
  ELSE IF ~Is2xx(out)
    THEN (IF out.json THEN Returned(out.body) ELSE ErrorRecord("Demucs HTTP Error"))
  ELSE IF ~out.json THEN ErrorRecord("Demucs Error")
  ELSE Returned(out.body)

\* align.py:21-43: a 200 answers with the alignment_file_path of the body
AlignResponse(out) ==
  IF out.kind = "Exception" THEN ErrorRecord("Unexpected error in mfa_service: {e}")
  ELSE IF out.kind # "response" THEN ErrorRecord("Error communicating with MFA: {e}")
  ELSE IF ~Is2xx(out) THEN ErrorRecord("Error communicating with MFA: {e}")
  ELSE IF out.status # 200 THEN ErrorRecord("MFA alignment failed")
  ELSE IF ~out.json THEN ErrorRecord("Error communicating with MFA: {e}")
  ELSE IF IsDict(out.body)
    THEN (IF HasKey(out.body, "alignment_file_path")
            THEN Returned(PyStr(out.body.val.alignment_file_path))
            ELSE ErrorRecord("MFA successful response missing 'alignment_file_path'"))
  ELSE IF out.body.py = "list"
    THEN ErrorRecord("MFA successful response missing 'alignment_file_path'")
  ELSE ErrorRecord("MFA successful response missing 'alignment_file_path'")

ClientResponse(client, out) ==
  CASE client = "request_f0_analysis" -> F0Response(out)
    [] client = "request_volume_analysis" -> VolumeResponse(out)
    [] client = "split_audio" -> SeparateResponse(out)
    [] OTHER -> AlignResponse(out)

InitClients ==
  /\ validCodes = {EmptyCode}
  /\ fs = [p \in {} |-> Audio]
  /\ jobs = EmptyDict
  /\ queues = [q \in {"translations", "cleanup_files"} |-> <<>>]
  /\ issued = 0
  /\ worker = [w \in Workers |-> IdleWorker]
  /\ last = NoExchange

\* one call of one client against one outcome of its HTTP call
ClientCall ==
  \E client \in ClientNamesOfServices : \E out \in HttpOutcomes(client) :
    /\ last' = [op |-> "client", client |-> client, out |-> out,
                raised |-> ClientResponse(client, out).raised,
                reply |-> ClientResponse(client, out).reply]
    /\ UNCHANGED <<validCodes, fs, jobs, queues, issued, worker>>

NextClients == ClientCall

SpecClients == InitClients /\ [][NextClients]_vars

\* two submissions of the same song and lyrics, accepted one after the other
\* and waiting in the queue, with as many worker processes as jobs
MaxConcurrent == 2

ConcurrentWorkers == 1..MaxConcurrent

ConcurrentRequest ==
  [env |-> BrokerUp, query |-> PyStr(GoodCode), header |-> Absent,
   audio |-> FilePart(SongName, Audio), lyrics |-> FilePart(LyricsName, LyricsWords),
   saveFails |-> "none"]

\* the volume after the first n submissions were saved and validated
RECURSIVE SubmittedVolume(_)

SubmittedVolume(n) ==
  IF n = 0 THEN [p \in {} |-> Audio]
  ELSE SaveValidateEnqueue(ConcurrentRequest, SubmittedVolume(n - 1), JobIdPool[n],
                           secure_filename(SongName), secure_filename(LyricsName)).fs

InitConcurrent ==
  /\ validCodes = {EmptyCode, GoodCode}
  /\ fs = SubmittedVolume(MaxConcurrent)
  /\ jobs = [j \in {JobIdPool[i] : i \in 1..MaxConcurrent} |->
               NewJob(<<PathJoin(AUDIO_DIR, UniqueName(j, secure_filename(SongName))),
                        PathJoin(LYRICS_DIR, UniqueName(j, secure_filename(LyricsName))),
                        UniqueName(j, secure_filename(SongName)),
                        secure_filename(SongName)>>)]
  /\ queues = [q \in {"translations", "cleanup_files"} |->
                 IF q = "translations"
                   THEN [i \in 1..MaxConcurrent |-> TranslationCall(JobIdPool[i])]
                   ELSE <<>>]
  /\ issued = MaxConcurrent
  /\ worker = [w \in ConcurrentWorkers |-> IdleWorker]
  /\ last = NoExchange

NextConcurrent == \E w \in ConcurrentWorkers : WorkerStep(w)

SpecConcurrent == InitConcurrent /\ [][NextConcurrent]_vars

\* the stem mappings request_f0_analysis is called with: instrument names in
\* either case, tonal or not, each with a path, an empty path, no path or a
\* value that is no string; and arguments that are no mapping or empty
F0Arguments ==
  LET instruments == {"vocals", "Vocals", "drums", "Drums", "kick"}
      values == {PyPath(PathJoin(SEPARATOR_OUTPUT_DIR, Wav("stem"))), PyStr(<<>>), PyNone,
                 PyList(<<"p">>)}
      mappings == UNION {{PyDict(m) : m \in [names -> values]} : names \in SUBSET instruments}
  IN mappings \cup {PyNone, PyList(<<"p">>), PyStr(<<"p">>)}

InitF0Client ==
  /\ validCodes = {EmptyCode}
  /\ fs = [p \in {} |-> Audio]
  /\ jobs = EmptyDict
  /\ queues = [q \in {"translations", "cleanup_files"} |-> <<>>]
  /\ issued = 0
  /\ worker = [w \in Workers |-> IdleWorker]
  /\ last \in {[op |-> "none", stem_paths |-> a] : a \in F0Arguments}

\* one call request_f0_analysis(stem_paths) against one behaviour of the service
F0Call ==
  /\ last.op = "none"
  /\ \E out \in F0Outcomes :
       LET res == request_f0_analysis(last.stem_paths, out)
       IN last' = [op |-> "f0", stem_paths |-> last.stem_paths, called |-> res.called,
                   payload |-> res.payload, raised |-> res.raised, reply |-> res.reply]
  /\ UNCHANGED <<validCodes, fs, jobs, queues, issued, worker>>

NextF0Client == F0Call

SpecF0Client == InitF0Client /\ [][NextF0Client]_vars

(* ------------------------------ claims --------------------------------- *)

Forward(s, t) ==
  \/ s = t
  \/ s = "queued" /\ t \in {"started", "finished", "failed"}
  \/ s = "started" /\ t \in {"finished", "failed"}

\* C1: a job's status only moves forward along queued -> started ->
\* finished | failed in every step (submit, worker step, timeout, poll), no
\* job is ever forgotten, and a poll that reports a status reports the
\* status the broker holds at that moment; so successive polls of a job
\* never see finished before queued/started nor failed before finished.
C1_StatusMonotonic ==
  [][/\ \A j \in DOMAIN jobs :
          j \in DOMAIN jobs' /\ Forward(jobs[j].status, jobs'[j].status)
     /\ (last'.op = "poll" /\ last'.reply.code \in {200, 202, 500})
          => /\ last'.job_id \in DOMAIN jobs'
             /\ last'.reply.body.status = jobs'[last'.job_id].status]_vars

\* a poll sees the job failed by the broker's timeout
C1_Witness ==
  /\ last.op = "poll"
  /\ last.reply.code = 500
  /\ last.job_id \in DOMAIN jobs
  /\ jobs[last.job_id].status = "failed"
  /\ jobs[last.job_id].exc_info = TIMEOUT_MESSAGE

\* C2: when the F0 call produced an error while separation, alignment and
\* mapping succeeded, the task returns a result whose mapped_result is the
\* mapper's output and whose f0_analysis is {error: e, info: "F0 analysis
\* did not complete successfully."}.
C2_F0Degraded ==
  \A w \in Workers :
    (worker[w].pc = "return" /\ Truthy(worker[w].thread_results_shared.f0_error))
      => /\ Truthy(worker[w].final_job_result.val.mapped_result)
         /\ worker[w].final_job_result.val.f0_analysis =
              PyDict([error |-> worker[w].thread_results_shared.f0_error.val,
                      info |-> F0_INFO])

\* the stage outcome that is fatal at the worker's position, if any
SeparatorErrored(w) ==
  worker[w].pc = "split_check" /\ HasKey(worker[w].separate_result, "error")
VocalsMissing(w) ==
  /\ worker[w].pc = "split_check"
  /\ ~HasKey(worker[w].separate_result, "error")
  /\ \/ ~HasKey(worker[w].separate_result, "vocals")
     \/ worker[w].separate_result.val.vocals.val \notin DOMAIN fs
AlignmentErrored(w) ==
  /\ worker[w].pc = "threads"
  /\ worker[w].align_thread = "done" /\ worker[w].f0_thread = "done"
  /\ worker[w].thread_results_shared.alignment_error # PyNone
MapperEmpty(w) ==
  /\ worker[w].pc = "map"
  /\ map_transcript(fs, worker[w].alignment_json_path.val, jobs[worker[w].job].args[2])
       \in {PyNone, PyList(<<>>)}

FatalMessage(w) ==
  CASE SeparatorErrored(w) ->
         <<"Audio separation failed: ">> \o worker[w].separate_result.val.error
    [] VocalsMissing(w) -> <<"Error during audio separation: Vocals track not found.">>
    [] AlignmentErrored(w) ->
         <<"Lyrics alignment failed: ">> \o worker[w].thread_results_shared.alignment_error.val
    [] MapperEmpty(w) -> <<"Failed to map alignment to transcript.">>
    [] OTHER -> <<>>

\* C3: a task step taken where the separator replied with an error, the
\* vocals stem is missing from the reply or from the disk, the alignment
\* task reported an error (which it does for an error reply and for a path
\* that does not exist), or the mapper gives null or [] fails the job with
\* the message of that case and stores no result; and a task step that
\* fails the job for another reason than the broker's timeout is one of
\* these four (an F0 error never is).
C3_FatalClassification ==
  [][\A w \in Workers :
       (worker[w].pc \in TaskPcs /\ worker'[w] # worker[w]) =>
         LET j == worker[w].job
             fatal == SeparatorErrored(w) \/ VocalsMissing(w)
                        \/ AlignmentErrored(w) \/ MapperEmpty(w)
         IN /\ fatal => /\ jobs'[j].status = "failed"
                        /\ jobs'[j].result = PyNone
                        /\ jobs'[j].exc_info \in {FatalMessage(w), TIMEOUT_MESSAGE}
                        /\ FatalMessage(w) # <<>>
                        /\ worker'[w].pc = "idle"
            /\ (jobs'[j].status = "failed" /\ jobs'[j].exc_info # TIMEOUT_MESSAGE) => fatal
            /\ (worker[w].align_thread = "running" /\ worker'[w].align_thread = "done") =>
                 LET slots == worker'[w].thread_results_shared
                 IN \/ slots.alignment_error # PyNone /\ slots.alignment_error.val # <<>>
                    \/ /\ slots.alignment_error = PyNone
                       /\ slots.alignment_json_path # PyNone
                       /\ slots.alignment_json_path.val \in DOMAIN fs']_vars

\* a job failed because the mapper gave nothing, after an F0 error that
\* did not stop the task
C3_Witness ==
  \E j \in DOMAIN jobs :
    /\ jobs[j].status = "failed"
    /\ jobs[j].exc_info = <<"Failed to map alignment to transcript.">>
    /\ jobs[j].result = PyNone

ResultFields == {"mapped_result", "f0_analysis", "audio_url", "original_filename"}

\* C4: a finished job holds a result record of the four fields, a failed
\* job holds a non-empty exc_info, and a poll answered 200 carries status
\* finished and a result.
C4_TerminalJobs ==
  /\ \A j \in DOMAIN jobs :
       /\ jobs[j].status = "finished" =>
            /\ jobs[j].result # PyNone
            /\ IsDict(jobs[j].result)
            /\ DOMAIN jobs[j].result.val = ResultFields
       /\ jobs[j].status = "failed" => jobs[j].exc_info # <<>>
  /\ (last.op = "poll" /\ last.reply.code = 200) =>
       /\ last.reply.body.status = "finished"
       /\ "result" \in DOMAIN last.reply.body
       /\ last.reply.body.result # PyNone
       /\ DOMAIN last.reply.body.result.val = ResultFields

\* a poll of a finished job answered 200
C4_Witness ==
  /\ last.op = "poll"
  /\ last.reply.code = 200
  /\ jobs[last.job_id].status = "finished"

Assembled(j) == j \in DOMAIN jobs /\ jobs[j].status = "finished"

\* the lyrics file, the alignment JSON and the stems directory of job j are
\* absent from the shared volume
Cleaned(j) ==
  /\ j \in DOMAIN jobs
  /\ jobs[j].args[2] \notin DOMAIN fs
  /\ PathJoin(ALIGNED_DIR, <<"vocals", ".", "json">>) \notin DOMAIN fs
  /\ ~DirExists(OutputModelDir(jobs[j].args[3]))

\* worker.py:50-53: a worker has nothing left to run when it holds no job
\* and no queue it listens on holds a call
AtRest ==
  /\ \A w \in Workers : worker[w].pc = "idle"
  /\ \A i \in 1..Len(LISTEN_QUEUES) : queues[LISTEN_QUEUES[i]] = <<>>

\* C5: the cleanup enqueued for a job whose task returned a result is
\* executed by the deployed workers: once they have nothing left to run,
\* the lyrics file, the alignment JSON and the stems directory of every
\* such job are absent from the shared volume.
C5_CleanupDone ==
  AtRest => \A j \in DOMAIN jobs : Assembled(j) => Cleaned(j)

\* C6: the stored audio file of an accepted job exists from the moment of
\* acceptance and disappears only in a step that answers DELETE
\* /api/cleanup/ for its stored name; no enqueued cleanup call names a path
\* in the audio directory; a finished result's audio_url is api/files/ plus
\* the stored name, and GET /api/files/ of that name answers 200 while the
\* file exists.
C6_AudioRetained ==
  [][/\ \A j \in DOMAIN jobs' :
          /\ j \notin DOMAIN jobs => jobs'[j].args[1] \in DOMAIN fs'
          /\ jobs'[j].args[1] = PathJoin(AUDIO_DIR, jobs'[j].args[3])
          /\ (j \in DOMAIN jobs /\ jobs[j].args[1] \in DOMAIN fs
                /\ jobs[j].args[1] \notin DOMAIN fs')
               => (last'.op = "delete" /\ last'.code = 200 /\ last'.name = jobs[j].args[3])
          /\ jobs'[j].status = "finished" =>
               jobs'[j].result.val.audio_url = <<"api/files/">> \o jobs'[j].args[3]
          /\ (last'.op = "serve" /\ last'.name = jobs'[j].args[3]
                /\ jobs'[j].args[1] \in DOMAIN fs')
               => last'.code = 200
     /\ \A i \in 1..Len(queues'["cleanup_files"]) :
          LET kw == queues'["cleanup_files"][i].kwargs
          IN /\ kw.lyrics_path.val.dir # AUDIO_DIR
             /\ kw.alignment_path.val.dir # AUDIO_DIR
             /\ kw.separate_path.val # AUDIO_DIR]_vars

\* the audio of a finished job, its cleanup already enqueued, is served
C6_Witness ==
  /\ last.op = "serve"
  /\ last.code = 200
  /\ queues["cleanup_files"] # <<>>
  /\ \E j \in DOMAIN jobs :
       /\ jobs[j].status = "finished"
       /\ last.name = jobs[j].args[3]
       /\ jobs[j].args[1] \in DOMAIN fs

\* whether the request carries a code of the allow-list
CodeAccepted(req, valid) ==
  LET code == IF req.query.py = "str" /\ req.query.val # <<>> THEN req.query ELSE req.header
  IN code.py = "str" /\ code.val # <<>> /\ code.val \in valid

NoSideEffect == fs' = fs /\ queues' = queues /\ jobs' = jobs

\* C7: a Submit made while the broker cannot be reached is answered 503
\* whatever its code and parts; otherwise one without an accepted code is
\* answered 401; otherwise one without both parts is answered 400; none of
\* the three writes a file or enqueues a job.
C7_RejectOrder ==
  [][last'.op = "submit" =>
       LET req == last'.req
       IN IF ~req.env.brokerUp
            THEN last'.status = 503 /\ NoSideEffect
          ELSE IF ~CodeAccepted(req, validCodes)
            THEN last'.status = 401 /\ NoSideEffect
          ELSE IF req.audio.py = "None" \/ req.lyrics.py = "None"
            THEN last'.status = 400 /\ NoSideEffect
          ELSE TRUE]_vars

\* C8: a Submit that got as far as storing its files and is not answered
\* 202 leaves neither stored file on the volume and no job in the queue or
\* the broker; a failed audio validation is answered without validating
\* the lyrics.
C8_NoPartialState ==
  [][(last'.op = "submit" /\ issued' # issued /\ last'.status # 202) =>
       LET req == last'.req
           job_id == JobIdPool[issued']
           apath == PathJoin(AUDIO_DIR, <<job_id, "_">> \o secure_filename(req.audio.filename))
           lpath == PathJoin(LYRICS_DIR, <<job_id, "_">> \o secure_filename(req.lyrics.filename))
       IN /\ apath \notin DOMAIN fs'
          /\ lpath \notin DOMAIN fs'
          /\ queues' = queues
          /\ job_id \notin DOMAIN jobs'
          /\ (req.saveFails = "none" /\ req.audio.content.kind # "audio")
                => (last'.status = 400 /\ last'.calls = <<"validate_audio">>)]_vars

\* C9: a Submit answered 202 with job_id appended exactly one call to the
\* translations queue, its id the returned job_id and fresh, its arguments
\* (audio_dir/{job_id}_{audio}, lyrics_dir/{job_id}_{lyrics},
\* {job_id}_{audio}, audio) with the sanitized names, and both files are on
\* the volume at those paths with the uploaded content.
C9_AcceptedEnqueuesOne ==
  [][(last'.op = "submit" /\ last'.status = 202 /\ issued' # issued) =>
       LET req == last'.req
           job_id == last'.job_id
           audio_name == secure_filename(req.audio.filename)
           lyrics_name == secure_filename(req.lyrics.filename)
           stored_audio == <<job_id, "_">> \o audio_name
           stored_lyrics == <<job_id, "_">> \o lyrics_name
           apath == [dir |-> AUDIO_DIR, name |-> stored_audio]
           lpath == [dir |-> LYRICS_DIR, name |-> stored_lyrics]
       IN /\ job_id # ""
          /\ job_id \notin DOMAIN jobs
          /\ DOMAIN jobs' = DOMAIN jobs \cup {job_id}
          /\ \A j \in DOMAIN jobs : jobs'[j] = jobs[j]
          /\ Len(queues'["translations"]) = Len(queues["translations"]) + 1
          /\ SubSeq(queues'["translations"], 1, Len(queues["translations"])) = queues["translations"]
          /\ queues'["translations"][Len(queues'["translations"])].id = job_id
          /\ \A i \in 1..Len(queues["translations"]) : queues["translations"][i].id # job_id
          /\ queues'["cleanup_files"] = queues["cleanup_files"]
          /\ jobs'[job_id].args = <<apath, lpath, stored_audio, audio_name>>
          /\ jobs'[job_id].status = "queued"
          /\ audio_name # <<>> /\ lyrics_name # <<>>
          /\ \A i \in 1..Len(audio_name) : audio_name[i] # "/"
          /\ \A i \in 1..Len(lyrics_name) : lyrics_name[i] # "/"
          /\ apath \in DOMAIN fs' /\ fs'[apath] = req.audio.content
          /\ lpath \in DOMAIN fs' /\ fs'[lpath] = req.lyrics.content]_vars

\* an upload whose client filename needed sanitizing was accepted
C9_Witness ==
  /\ last.op = "submit"
  /\ last.status = 202
  /\ last.req.audio.filename = TraversalName
  /\ last.job_id \in DOMAIN jobs
  /\ queues["translations"] # <<>>

\* C10: the reply to a poll is determined by the broker's view of the job:
\* connection failure 503; no such job 404 with the fixed message; finished
\* with a dict result 200 {status: finished, result}; finished with any
\* other result 500; failed 500 {status: failed, message: exc_info}; any
\* other status 202 {status}, with progress_stage exactly when the job
\* metadata has one.
C10_PollResolution ==
  last.op = "poll" =>
    LET r == last.reply
        j == last.job_id
    IN IF ~last.env.brokerUp THEN r.code = 503
       ELSE IF j \notin DOMAIN jobs
         THEN r = [code |-> 404,
                   body |-> [status |-> "error", message |-> <<"Job ID not found or invalid.">>]]
       ELSE IF jobs[j].status = "finished" /\ jobs[j].result.py = "dict"
         THEN r = [code |-> 200, body |-> [status |-> "finished", result |-> jobs[j].result]]
       ELSE IF jobs[j].status = "finished"
         THEN r.code = 500
       ELSE IF jobs[j].status = "failed"
         THEN /\ r.code = 500
              /\ DOMAIN r.body = {"status", "message"}
              /\ r.body.status = "failed"
              /\ jobs[j].exc_info # <<>> => r.body.message = jobs[j].exc_info
       ELSE /\ r.code = 202
            /\ r.body.status = jobs[j].status
            /\ IF "progress_stage" \in DOMAIN jobs[j].meta
                 THEN /\ DOMAIN r.body = {"status", "progress_stage"}
                      /\ r.body.progress_stage = jobs[j].meta["progress_stage"]
                 ELSE DOMAIN r.body = {"status"}

\* a started job with a recorded stage was polled
C10_Witness ==
  /\ last.op = "poll"
  /\ last.job_id \in DOMAIN jobs
  /\ jobs[last.job_id].status = "started"
  /\ "progress_stage" \in DOMAIN jobs[last.job_id].meta
  /\ last.reply.code = 202
  /\ "progress_stage" \in DOMAIN last.reply.body

\* C11: a step that answers GET /api/results/{job_id} leaves every job's
\* status, metadata and result, both queues, every file of the shared
\* volume and every worker's position and locals as they were, at whatever
\* point of the worker's execution it comes; the worker's steps depend on
\* nothing else, so the outcome of a job is the same with and without polls.
C11_PollReadOnly ==
  [][last'.op = "poll" =>
       /\ jobs' = jobs
       /\ queues' = queues
       /\ fs' = fs
       /\ worker' = worker
       /\ issued' = issued
       /\ validCodes' = validCodes]_vars

\* a job was polled while its two threads were running
C11_Witness ==
  /\ last.op = "poll"
  /\ last.reply.code = 202
  /\ \E w \in Workers :
       /\ worker[w].pc = "threads"
       /\ worker[w].job = last.job_id

\* C12: for a name that equals its sanitized form, DELETE /api/cleanup/
\* answers 200 whether or not audio_dir/{name} is there, the file is absent
\* afterwards and no other file has changed; it is so at every repetition.
C12_DeleteIdempotent ==
  [][(last'.op = "delete" /\ last'.name # <<>>
        /\ secure_filename(last'.name) = last'.name) =>
       LET target == [dir |-> AUDIO_DIR, name |-> last'.name]
       IN /\ last'.code = 200
          /\ target \notin DOMAIN fs'
          /\ DOMAIN fs' = DOMAIN fs \ {target}
          /\ \A p \in DOMAIN fs' : fs'[p] = fs[p]]_vars

\* a delete of a name whose file is not there was answered 200 while a file
\* of the same name in the lyrics directory stayed
C12_Witness ==
  /\ last.op = "delete"
  /\ last.name = StoredSong
  /\ last.code = 200
  /\ PathJoin(AUDIO_DIR, StoredSong) \notin DOMAIN fs
  /\ PathJoin(LYRICS_DIR, StoredSong) \in DOMAIN fs

\* C13: a DELETE /api/cleanup/ whose name differs from its sanitized form is
\* answered 400 and deletes nothing, and no DELETE removes a file outside
\* the audio directory.
C13_TraversalRejected ==
  [][last'.op = "delete" =>
       /\ secure_filename(last'.name) # last'.name => (last'.code = 400 /\ fs' = fs)
       /\ \A p \in DOMAIN fs \ DOMAIN fs' : p.dir = AUDIO_DIR]_vars

(* the mapper's contract, stated on the text of the two files *)

SetMin(S) == CHOOSE x \in S : \A y \in S : x <= y
SetMax(S) == CHOOSE x \in S : \A y \in S : x >= y

\* the members of a set of integers in increasing order
Ascending(S) ==
  CHOOSE q \in [1..Cardinality(S) -> S] : \A a, b \in 1..Cardinality(S) : a < b => q[a] < q[b]

LyricsReadable == MapperLyricsPath \in DOMAIN fs
AlignmentValid ==
  MapperAlignmentPath \in DOMAIN fs /\ fs[MapperAlignmentPath].kind = "json"
LyricLines == IF LyricsReadable THEN fs[MapperLyricsPath].lines ELSE <<>>
AlignmentEntries == IF AlignmentValid THEN fs[MapperAlignmentPath].entries ELSE <<>>

\* a line without its leading and trailing blanks
StrippedLine(line) ==
  LET inked == {i \in 1..Len(line) : line[i] # " "}
  IN IF inked = {} THEN <<>> ELSE SubSeq(line, SetMin(inked), SetMax(inked))

LowerCase(c) == IF c = "A" THEN "a" ELSE IF c = "B" THEN "b" ELSE IF c = "C" THEN "c" ELSE c

\* a word in lower case without the . , ! ? ; : at its ends
Normalized(word) ==
  LET core == {i \in 1..Len(word) : word[i] \notin {".", ",", "!", "?", ";", ":"}}
  IN IF core = {} THEN <<>>
     ELSE [i \in 1..(SetMax(core) - SetMin(core) + 1) |-> LowerCase(word[SetMin(core) + i - 1])]

\* tokenize(line): the blank-separated words of the line, normalized, the
\* empty ones left out
WordStarts(line) ==
  {i \in 1..Len(line) : line[i] # " " /\ (i = 1 \/ line[i - 1] = " ")}
WordFrom(line, i) ==
  SubSeq(line, i, SetMax({j \in i..Len(line) : \A k \in i..j : line[k] # " "}))
Tokenize(line) ==
  LET starts == {i \in WordStarts(line) : Normalized(WordFrom(line, i)) # <<>>}
      order == Ascending(starts)
  IN [k \in 1..Cardinality(starts) |-> Normalized(WordFrom(line, order[k]))]

\* the lines of the lyrics file that tokenize to at least one word, in order
TokenLines ==
  LET idx == {i \in 1..Len(LyricLines) : Tokenize(LyricLines[i]) # <<>>}
      order == Ascending(idx)
  IN [k \in 1..Cardinality(idx) |-> LyricLines[order[k]]]

MapperRan == last.op = "map"
Mapped == last.result.val

\* C14: for a readable lyrics file with L lines that tokenize to at least
\* one word and a valid alignment document, map_transcript returns exactly
\* L lines, the i-th with the text of the i-th such line stripped of the
\* blanks at its ends, case and punctuation kept.
C14_LinePreservation ==
  (MapperRan /\ LyricsReadable /\ AlignmentValid) =>
    /\ last.result.py = "list"
    /\ Len(Mapped) = Len(TokenLines)
    /\ \A i \in 1..Len(Mapped) : Mapped[i].line_text = StrippedLine(TokenLines[i])

\* a file of two lines, one of them without a word, was mapped to one line
\* whose text is the stripped line
C14_Witness ==
  /\ MapperRan /\ LyricsReadable /\ AlignmentValid
  /\ Len(LyricLines) = 2
  /\ Len(Mapped) = 1
  /\ Mapped[1].line_text = <<"b">>
  /\ <<" ", "b", " ">> \in {LyricLines[i] : i \in 1..2}

\* the word entry e is the placeholder of token t
IsPlaceholder(e, t) == e.word = t /\ e.start = NoTime /\ e.end = NoTime

\* the word entry e carries an entry of the alignment whose text normalizes
\* to token t
IsAligned(e, t) ==
  \E i \in 1..Len(AlignmentEntries) :
    LET a == AlignmentEntries[i]
    IN /\ Len(a) > 2
       /\ e.word = a[3]
       /\ e.start = a[1]
       /\ e.end = a[2]
       /\ Normalized(a[3]) = t

\* C15: every mapped line has one word entry per token of its line, in the
\* lyric order; the k-th is the aligner's own token, casing kept, whose
\* normalization is the k-th token, or the k-th token itself with null
\* start and end.
C15_WordPreservation ==
  (MapperRan /\ LyricsReadable /\ AlignmentValid) =>
    \A i \in 1..Len(Mapped) :
      LET tokens == Tokenize(Mapped[i].line_text)
          words == Mapped[i].words
      IN /\ Len(words) = Len(tokens)
         /\ \A k \in 1..Len(words) :
              IsPlaceholder(words[k], tokens[k]) \/ IsAligned(words[k], tokens[k])

\* a line of two tokens was mapped to the aligner's upper-case token and a
\* placeholder
C15_Witness ==
  /\ MapperRan /\ LyricsReadable /\ AlignmentValid
  /\ \E i \in 1..Len(Mapped) :
       /\ Len(Mapped[i].words) = 2
       /\ \E k, m \in 1..2 :
            /\ Mapped[i].words[k].word = <<"B">>
            /\ Mapped[i].words[k].start # NoTime
            /\ Mapped[i].words[m].start = NoTime
            /\ Mapped[i].words[m].word = <<"a">>

RECURSIVE Flatten(_)
\* the word entries of all lines, in order
Flatten(lines) ==
  IF lines = <<>> THEN <<>> ELSE lines[1].words \o Flatten(Tail(lines))

C17_LineTimes ==
  (MapperRan /\ last.result.py = "list") =>
    \A i \in 1..Len(Mapped) :
      LET words == Mapped[i].words
          starts == {words[k].start : k \in 1..Len(words)} \ {NoTime}
          ends == {words[k].end : k \in 1..Len(words)} \ {NoTime}
      IN /\ Mapped[i].line_start_time = IF starts = {} THEN NoTime ELSE SetMin(starts)
         /\ Mapped[i].line_end_time = IF ends = {} THEN NoTime ELSE SetMax(ends)

\* a line with two timed words, and a line none of whose words is timed
C17_Witness ==
  /\ MapperRan /\ last.result.py = "list"
  /\ Len(Mapped) = 2
  /\ \E i, j \in 1..2 :
       /\ Len(Mapped[i].words) = 2
       /\ Mapped[i].words[1].end # NoTime
       /\ Mapped[i].words[2].end # NoTime
       /\ Mapped[i].line_end_time = Mapped[i].words[2].end
       /\ Mapped[j].line_start_time = NoTime
       /\ Mapped[j].line_end_time = NoTime

\* C18: map_transcript returns null when the alignment file is missing or
\* is not valid JSON; it returns null only if one of the two files is
\* unreadable or the alignment is not valid JSON; with both files readable
\* and a valid alignment the result is a list of mapped lines.
C18_NullResult ==
  MapperRan =>
    /\ ~AlignmentValid => last.result = PyNone
    /\ last.result = PyNone => (~AlignmentValid \/ ~LyricsReadable)
    /\ (AlignmentValid /\ LyricsReadable) =>
         /\ last.result.py = "list"
         /\ \A i \in 1..Len(Mapped) :
              DOMAIN Mapped[i] = {"line_text", "words", "line_start_time", "line_end_time"}

\* the lyrics were readable, the alignment file was not JSON and the answer
\* was null
C18_Witness ==
  /\ MapperRan
  /\ LyricsReadable
  /\ MapperAlignmentPath \in DOMAIN fs
  /\ fs[MapperAlignmentPath].kind = "notjson"
  /\ last.result = PyNone

\* the entry has a text that normalizes to a word
Voiced(entry) == Len(entry) > 2 /\ Normalized(entry[3]) # <<>>

\* C19: entries of the alignment whose normalized word is empty change
\* nothing: mapping over the entries equals mapping over the entries with
\* those removed.
C19_EmptiesTransparent ==
  (MapperRan /\ AlignmentValid) =>
    last.result =
      map_transcript(
        [fs EXCEPT ![MapperAlignmentPath].entries = SelectSeq(AlignmentEntries, Voiced)],
        MapperAlignmentPath, MapperLyricsPath)

\* a silence stood between the entries two words of a line were bound to
C19_Witness ==
  /\ MapperRan /\ AlignmentValid
  /\ Len(AlignmentEntries) = 3
  /\ ~Voiced(AlignmentEntries[2])
  /\ Len(Mapped) = 1
  /\ Len(Mapped[1].words) = 2
  /\ Mapped[1].words[1].start = AlignmentEntries[1][1]
  /\ Mapped[1].words[2].start = AlignmentEntries[3][1]
  /\ Mapped[1].words[2].start # NoTime

\* what a client hands on of a decoded 200 body: the aligner's client the
\* alignment_file_path of it, the others the body
Payload(client, body) ==
  IF client = "align_lyrics" THEN PyStr(body.val.alignment_file_path) ELSE body

\* C20: whatever the outcome of its HTTP call (an error status, no
\* connection, a timeout, a body that does not decode, any other
\* exception), a service client raises nothing and returns a record with
\* the key error; with a 2xx answer that decodes it returns the payload.
C20_ClientsNeverThrow ==
  last.op = "client" =>
    /\ ~last.raised
    /\ IF Is2xx(last.out) /\ last.out.json
         THEN last.reply = Payload(last.client, last.out.body)
         ELSE last.reply.py = "dict" /\ "error" \in DOMAIN last.reply.val

\* the files the job a worker runs still reads: its lyrics until the mapper
\* has run, its vocals stem until the aligner has answered, and its
\* alignment JSON from the aligner's answer until the mapper has run
StillReads(w) ==
  LET pc == worker[w].pc
      shared == worker[w].thread_results_shared
  IN (IF pc \in TaskPcs THEN {jobs[worker[w].job].args[2]} ELSE {})
     \cup (IF pc = "stage2" \/ (pc = "threads" /\ worker[w].align_thread = "running")
             THEN {worker[w].vocals_stem_path.val} ELSE {})
     \cup (IF pc = "threads" /\ Truthy(shared.alignment_json_path)
             THEN {shared.alignment_json_path.val} ELSE {})
     \cup (IF pc = "map" /\ Truthy(worker[w].alignment_json_path)
             THEN {worker[w].alignment_json_path.val} ELSE {})

\* C21: with two jobs in flight on concurrent workers, no step taken for one
\* job (the aligner's reset of its directories included) deletes or
\* overwrites a file the other job still reads
C21_JobsIsolated ==
  [][\A w \in ConcurrentWorkers :
       worker'[w] = worker[w] =>
         \A p \in StillReads(w) :
           p \in DOMAIN fs => (p \in DOMAIN fs' /\ fs'[p] = fs[p])]_vars

\* the positions of the task after the join: the mapper call and the return
AfterJoin == {"map", "return"}

\* the positions of the task before the separator call has returned
BeforeSeparated == {"idle", "begin", "separate", "split"}

\* C22: the mapper call, and the read of the slots before it, never starts
\* before both the alignment task and the F0 task have terminated; and the
\* separator call has returned before either task starts
C22_JoinBeforeMap ==
  \A w \in Workers :
    /\ worker[w].pc \in AfterJoin =>
         worker[w].align_thread = "done" /\ worker[w].f0_thread = "done"
    /\ (Truthy(worker[w].alignment_json_path) \/ Truthy(worker[w].f0_analysis_result)) =>
         worker[w].pc \in AfterJoin
    /\ (worker[w].align_thread # "unborn" \/ worker[w].f0_thread # "unborn") =>
         /\ worker[w].pc \notin BeforeSeparated
         /\ Truthy(worker[w].separate_result)

\* the mapper is about to be called after an F0 task that failed and an
\* alignment task that succeeded
C22_Witness ==
  \E w \in Workers :
    /\ worker[w].pc = "map"
    /\ worker[w].align_thread = "done" /\ worker[w].f0_thread = "done"
    /\ Truthy(worker[w].thread_results_shared.f0_error)
    /\ Truthy(worker[w].alignment_json_path)

\* exactly one of two slots holds a value
OneOf(a, b) == (a = PyNone) # (b = PyNone)

AlignSlots(shared) == <<shared.alignment_json_path, shared.alignment_error>>
F0Slots(shared) == <<shared.f0_analysis_data, shared.f0_error>>

\* C23: the alignment task writes only alignment_json_path and
\* alignment_error, the F0 task only f0_analysis_data and f0_error; once both
\* are joined exactly one slot of each pair is set, and what the worker reads
\* after the join is what the tasks wrote last
C23_DisjointSlots ==
  [][\A w \in Workers :
       LET shared == worker[w].thread_results_shared
           after == worker'[w].thread_results_shared
           alignEnds == worker[w].align_thread = "running" /\ worker'[w].align_thread = "done"
           f0Ends == worker[w].f0_thread = "running" /\ worker'[w].f0_thread = "done"
       IN /\ alignEnds =>
               F0Slots(after) = F0Slots(shared) /\ AlignSlots(after) # AlignSlots(shared)
          /\ f0Ends =>
               AlignSlots(after) = AlignSlots(shared) /\ F0Slots(after) # F0Slots(shared)
          /\ (worker[w].pc = "threads" /\ worker'[w].pc \in {"threads", "map"}
                /\ ~alignEnds /\ ~f0Ends) => after = shared
          /\ (worker[w].pc = "threads" /\ worker[w].align_thread = "done"
                /\ worker[w].f0_thread = "done") =>
               /\ OneOf(shared.alignment_json_path, shared.alignment_error)
               /\ OneOf(shared.f0_analysis_data, shared.f0_error)
          /\ (worker[w].pc = "threads" /\ worker'[w].pc = "map") =>
               /\ worker'[w].alignment_json_path = shared.alignment_json_path
               /\ worker'[w].f0_analysis_result = shared.f0_analysis_data]_vars

\* both tasks succeeded, were joined, and the worker holds what they wrote
C23_Witness ==
  \E w \in Workers :
    /\ worker[w].pc = "map"
    /\ worker[w].thread_results_shared.f0_analysis_data # PyNone
    /\ worker[w].thread_results_shared.alignment_json_path # PyNone
    /\ worker[w].f0_analysis_result = worker[w].thread_results_shared.f0_analysis_data
    /\ worker[w].alignment_json_path = worker[w].thread_results_shared.alignment_json_path

\* the normalized text of an alignment entry, empty when it has none
RefEntryText(a) == IF Len(a) > 2 THEN Normalized(a[3]) ELSE <<>>

RECURSIVE RefScan(_, _, _)
\* the reference algorithm over the tokens of all lines in order, with one
\* cursor c: for each token the index of the entry it binds, the first at
\* or after the cursor whose normalized text is the token, or 0 when there
\* is none; the cursor moves just past a bound entry and stays otherwise
RefScan(tokens, entries, c) ==
  IF tokens = <<>> THEN <<>>
  ELSE LET hits == {n \in c..Len(entries) : RefEntryText(entries[n]) = tokens[1]}
           hit == IF hits = {} THEN 0 ELSE SetMin(hits)
       IN <<hit>> \o RefScan(Tail(tokens), entries, IF hit = 0 THEN c ELSE hit + 1)

RECURSIVE RefConcat(_)
RefConcat(seqs) == IF seqs = <<>> THEN <<>> ELSE seqs[1] \o RefConcat(Tail(seqs))

\* what the reference algorithm returns for the lines tl (each with a
\* token) and the alignment entries: bound, the entry index per token, and
\* lines, the mapped lines
RefMapped(tl, entries) ==
  LET lineTokens == [i \in 1..Len(tl) |-> Tokenize(tl[i])]
      offset == [i \in 1..Len(tl) |-> Len(RefConcat(SubSeq(lineTokens, 1, i - 1)))]
      tokens == RefConcat(lineTokens)
      bound == RefScan(tokens, entries, 1)
      word == [n \in 1..Len(tokens) |->
                 IF bound[n] = 0
                   THEN [word |-> tokens[n], start |-> NoTime, end |-> NoTime]
                   ELSE [word |-> entries[bound[n]][3], start |-> entries[bound[n]][1],
                         end |-> entries[bound[n]][2]]]
      line(i) ==
        LET words == [k \in 1..Len(lineTokens[i]) |-> word[offset[i] + k]]
            starts == {words[k].start : k \in 1..Len(words)} \ {NoTime}
            ends == {words[k].end : k \in 1..Len(words)} \ {NoTime}
        IN [line_text |-> StrippedLine(tl[i]), words |-> words,
            line_start_time |-> IF starts = {} THEN NoTime ELSE SetMin(starts),
            line_end_time |-> IF ends = {} THEN NoTime ELSE SetMax(ends)]
  IN [bound |-> bound, lines |-> [i \in 1..Len(tl) |-> line(i)]]

\* C24: for every lyrics input and alignment entry sequence, map_transcript
\* returns exactly what the reference algorithm returns: one cursor shared
\* by all lines, a forward scan per token to the first entry whose
\* normalized word is the token, the entry bound and the cursor moved just
\* past it on success, a null-timed placeholder and an unmoved cursor on
\* failure; the cursor never decreases
C24_CursorAlgorithm ==
  (MapperRan /\ LyricsReadable /\ AlignmentValid) =>
    LET ref == RefMapped(TokenLines, AlignmentEntries)
    IN /\ Mapped = ref.lines
       /\ \A n, m \in 1..Len(ref.bound) :
            (n < m /\ ref.bound[n] # 0 /\ ref.bound[m] # 0) => ref.bound[n] < ref.bound[m]

\* two lines were mapped; the second binds an entry behind the one the first
\* bound, and a token without an entry got a placeholder
C24_Witness ==
  /\ MapperRan /\ LyricsReadable /\ AlignmentValid
  /\ Len(Mapped) = 2
  /\ \E k \in 1..Len(Mapped[1].words) : Mapped[1].words[k].start = 1
  /\ \E k \in 1..Len(Mapped[2].words) : Mapped[2].words[k].start = 5
  /\ \E n \in 1..Len(Flatten(Mapped)) :
       Flatten(Mapped)[n].start = NoTime /\ Flatten(Mapped)[n].word = <<"b">>

\* a sequence without its n-th element
Without(q, n) == SubSeq(q, 1, n - 1) \o SubSeq(q, n + 1, Len(q))

\* the tokenized lines tl with the k-th token of the i-th line removed
TokensRemoved(tl, i, k) ==
  [j \in 1..Len(tl) |->
     [original_text |-> StrippedLine(tl[j]),
      word_list |-> IF j = i THEN Without(Tokenize(tl[j]), k) ELSE Tokenize(tl[j])]]

\* C25: a token that equals no alignment entry at or after the cursor is
\* emitted with null start and end, and every other token receives the
\* word, start and end it receives when the lyrics are mapped without it
C25_OovConsumesNothing ==
  (MapperRan /\ LyricsReadable /\ AlignmentValid) =>
    LET tl == TokenLines
        entries == AlignmentEntries
        ref == RefMapped(tl, entries)
        flat == Flatten(Mapped)
        offset == [i \in 1..Len(tl) |-> Len(Flatten(SubSeq(Mapped, 1, i - 1)))]
        cursor(n) == 1 + SetMax({0} \cup {ref.bound[m] : m \in 1..(n - 1)})
    IN \A i \in 1..Len(tl) : \A k \in 1..Len(Tokenize(tl[i])) :
         LET n == offset[i] + k
             token == Tokenize(tl[i])[k]
         IN (\A x \in cursor(n)..Len(entries) : RefEntryText(entries[x]) # token) =>
              /\ IsPlaceholder(flat[n], token)
              /\ Without(flat, n) = Flatten(MapLines(TokensRemoved(tl, i, k), entries, 1))

\* a token without an entry stands before a token that is bound to the
\* first entry
C25_Witness ==
  /\ MapperRan /\ LyricsReadable /\ AlignmentValid
  /\ Len(AlignmentEntries) > 0
  /\ \E i \in 1..Len(Mapped) :
       /\ Len(Mapped[i].words) = 2
       /\ IsPlaceholder(Mapped[i].words[1], <<"b">>)
       /\ Mapped[i].words[2].start = 1
       /\ \A x \in 1..Len(AlignmentEntries) : RefEntryText(AlignmentEntries[x]) # <<"b">>

\* an instrument name in lower case
LoweredName(i) ==
  IF i = "Vocals" THEN "vocals" ELSE IF i = "Drums" THEN "drums"
  ELSE IF i = "BASS" THEN "bass" ELSE i

\* a value that is a string and not the empty one
NonEmptyString(v) == v.py = "path" \/ (v.py = "str" /\ Len(v.val) > 0)

\* C26: the payload request_f0_analysis posts holds exactly the entries of
\* its argument whose lower-cased instrument name is one of vocals, bass,
\* guitar, piano, other and whose path is a non-empty string; when there is
\* none it returns a record with info and posts nothing; when the argument
\* is empty or no mapping it returns a record with error and posts nothing
C26_F0InputFiltering ==
  last.op = "f0" =>
    LET arg == last.stem_paths
    IN IF arg.py # "dict" \/ DOMAIN arg.val = {}
         THEN ~last.called /\ last.reply.py = "dict" /\ "error" \in DOMAIN last.reply.val
       ELSE
         LET kept == {i \in DOMAIN arg.val :
                        /\ LoweredName(i) \in {"vocals", "bass", "guitar", "piano", "other"}
                        /\ NonEmptyString(arg.val[i])}
         IN IF kept = {}
              THEN ~last.called /\ last.reply.py = "dict" /\ DOMAIN last.reply.val = {"info"}
              ELSE last.called /\ last.payload = [i \in kept |-> arg.val[i]]

\* a mapping with a capitalized tonal stem, drums and a stem without a path:
\* the capitalized stem alone was posted
C26_Witness ==
  /\ last.op = "f0"
  /\ last.stem_paths.py = "dict"
  /\ DOMAIN last.stem_paths.val = {"Vocals", "drums", "vocals"}
  /\ last.stem_paths.val["vocals"] = PyNone
  /\ last.called
  /\ DOMAIN last.payload = {"Vocals"}

\* the stages in pipeline order
StageOrder == <<"starting", "separating_audio", "stem_processing", "mapping_transcript">>

\* the place of a job's stage in the order, 0 before the first is written
StageRank(job) ==
  IF "progress_stage" \notin DOMAIN job.meta THEN 0
  ELSE CHOOSE r \in 1..Len(StageOrder) : StageOrder[r] = job.meta["progress_stage"]

\* the stage that must be on record while the task is at a position: the
\* separator, the two tasks and the mapper are called at split, threads, map
StageAt(pc) ==
  CASE pc = "split" -> 2 [] pc = "threads" -> 3 [] pc = "map" -> 4 [] OTHER -> 0

\* C27: the values written to a job's progress_stage are, in this order,
\* starting, separating_audio, stem_processing, mapping_transcript, none
\* left out, each on record before its stage's external call begins; a poll
\* reports the stage on record, so no poll shows an earlier stage after a
\* later one
C27_StagesInOrder ==
  [][/\ \A j \in DOMAIN jobs :
          /\ j \in DOMAIN jobs'
          /\ "progress_stage" \in DOMAIN jobs'[j].meta =>
               jobs'[j].meta["progress_stage"] \in {StageOrder[r] : r \in 1..Len(StageOrder)}
          /\ StageRank(jobs'[j]) \in {StageRank(jobs[j]), StageRank(jobs[j]) + 1}
     /\ \A w \in Workers :
          StageAt(worker'[w].pc) # 0 =>
            StageRank(jobs'[worker'[w].job]) = StageAt(worker'[w].pc)
     /\ (last'.op = "poll" /\ last'.reply.code = 202) =>
          /\ "progress_stage" \in DOMAIN last'.reply.body <=>
               "progress_stage" \in DOMAIN jobs'[last'.job_id].meta
          /\ "progress_stage" \in DOMAIN last'.reply.body =>
               last'.reply.body.progress_stage = jobs'[last'.job_id].meta["progress_stage"]]_vars

\* a poll of a job whose two tasks are running shows stem_processing
C27_Witness ==
  /\ last.op = "poll"
  /\ last.reply.code = 202
  /\ "progress_stage" \in DOMAIN last.reply.body
  /\ last.reply.body.progress_stage = "stem_processing"
  /\ \E w \in Workers : worker[w].job = last.job_id /\ worker[w].pc = "threads"

\* the cleanup calls in queue q that name the lyrics file of job record job
CleanupCallsFor(q, job) ==
  {i \in 1..Len(q) : q[i].kwargs.lyrics_path = PyPath(job.args[2])}

\* the files of the stems directory of job record job on volume f
StemFiles(f, job) ==
  {p \in DOMAIN f : p.dir = OutputModelDir(job.args[3])}

\* C28: a task enqueues a cleanup job at most once and only in the step that
\* has assembled its final result; a step that fails the job (separator
\* error, missing vocals, alignment error, empty mapping) enqueues none, and
\* the lyrics file and the stems of a failed job stay on the volume
C28_CleanupOnlyOnSuccess ==
  [][LET cq == queues["cleanup_files"]
         after == queues'["cleanup_files"]
     IN /\ after # cq =>
             /\ \E w \in Workers :
                  /\ worker[w].pc = "map" /\ worker'[w].pc = "return"
                  /\ IsDict(worker'[w].final_job_result)
                  /\ Truthy(worker'[w].final_job_result.val.mapped_result)
                  /\ Len(after) = Len(cq) + 1
                  /\ SubSeq(after, 1, Len(cq)) = cq
                  /\ after[Len(after)].func = "cleanup_files"
                  /\ after[Len(after)].kwargs.lyrics_path = PyPath(jobs[worker[w].job].args[2])
             /\ \A j \in DOMAIN jobs' :
                  /\ Cardinality(CleanupCallsFor(after, jobs'[j])) <= 1
                  /\ jobs'[j].status = "failed" => CleanupCallsFor(after, jobs'[j]) = {}
        /\ \A j \in DOMAIN jobs' :
             jobs'[j].status = "failed" =>
               /\ jobs'[j].args[2] \in DOMAIN fs'
               /\ (j \notin DOMAIN jobs \/ jobs[j].status # "failed") =>
                    CleanupCallsFor(after, jobs'[j]) = {}
               /\ (j \in DOMAIN jobs /\ fs' # fs) =>
                    StemFiles(fs, jobs[j]) \subseteq StemFiles(fs', jobs'[j])]_vars

\* a job failed at the mapper: no cleanup is enqueued, its lyrics file and
\* its stems are on the volume
C28_Witness ==
  /\ queues["cleanup_files"] = <<>>
  /\ \E j \in DOMAIN jobs :
       /\ jobs[j].status = "failed"
       /\ jobs[j].exc_info = <<"Failed to map alignment to transcript.">>
       /\ jobs[j].args[2] \in DOMAIN fs
       /\ StemFiles(fs, jobs[j]) # {}

\* C29: in a result of map_transcript no alignment entry supplies the timing
\* of two lyric tokens: the word entries that carry an alignment entry can
\* be assigned entry indices that increase strictly along the flattened
\* words, every other word entry is a null-timed placeholder, and so a
\* token gets at most as many bound occurrences as the alignment has
\* entries of its text
C29_BoundAtMostOnce ==
  (MapperRan /\ LyricsReadable /\ AlignmentValid) =>
    LET entries == AlignmentEntries
        flat == Flatten(Mapped)
        tokens == RefConcat([i \in 1..Len(TokenLines) |-> Tokenize(TokenLines[i])])
        g == RefMapped(TokenLines, entries).bound
        boundAt == {n \in 1..Len(flat) : g[n] # 0}
    IN /\ Len(flat) = Len(tokens) /\ Len(g) = Len(tokens)
       /\ \A n \in 1..Len(flat) :
            IF n \in boundAt
              THEN /\ Len(entries[g[n]]) > 2
                   /\ RefEntryText(entries[g[n]]) = tokens[n]
                   /\ flat[n] = [word |-> entries[g[n]][3], start |-> entries[g[n]][1],
                                 end |-> entries[g[n]][2]]
              ELSE IsPlaceholder(flat[n], tokens[n])
       /\ \A n, m \in boundAt : n < m => g[n] < g[m]
       /\ \A t \in {tokens[n] : n \in 1..Len(tokens)} :
            Cardinality({n \in boundAt : tokens[n] = t})
              <= Cardinality({x \in 1..Len(entries) : RefEntryText(entries[x]) = t})

\* a token written twice in a line met an alignment with one entry of its
\* text: the first occurrence is timed, the second a placeholder
C29_Witness ==
  /\ MapperRan /\ LyricsReadable /\ AlignmentValid
  /\ Cardinality({x \in 1..Len(AlignmentEntries) :
                    RefEntryText(AlignmentEntries[x]) = <<"a">>}) = 1
  /\ \E i \in 1..Len(Mapped) :
       /\ Mapped[i].line_text = <<"a", " ", "a">>
       /\ Mapped[i].words[1].start # NoTime
       /\ IsPlaceholder(Mapped[i].words[2], <<"a">>)

====
